---- MODULE Spec2Model ----
(***************************************************************************)
(* Verification model of the PBL4 client's native engine:                  *)
(*   - the real-time monitor of YaraScanner (lifecycle, event queue,       *)
(*     worker and watcher threads)                        -- Spec          *)
(*   - the per-file scan pipeline scan_file_internal      -- SpecScan      *)
(*   - the quarantine manager (quarantine / restore)      -- SpecQ         *)
(*   - the real-time monitor with the polling watcher     -- SpecRt        *)
(*   - scan_folder with its throttle                      -- SpecFolder    *)
(*   - get_progress_percent                               -- SpecProgress  *)
(*   - the path exclusion of scan_file_internal           -- SpecPath      *)
(*   - init / shutdown and the engine's resources         -- SpecEngine    *)
(*   - the monitor with every thread scheduled fairly     -- SpecLive      *)
(*   - the monitor driven through the Python binding      -- SpecGil       *)
(*   - scan_mutex, concurrent scans and shutdown          -- SpecMutex     *)
(*   - the file-stability check of a queued path          -- SpecStable    *)
(***************************************************************************)
EXTENDS Integers, Sequences, FiniteSets, TLC

VARIABLES
    \* ---- YaraScanner real-time monitor (YaraScanner.h) ----
    monitor_state,          \* std::atomic<MonitorState>
    monitoring,             \* std::atomic<bool>
    callbacks_enabled,      \* std::atomic<bool>
    realtime_callback,      \* ResultCallback (NoCallback = empty std::function)
    path_queue,             \* std::deque<std::string>
    last_event_time,        \* unordered_map<string, time_point>
    monitor_thread,         \* watcher std::thread: TRUE iff joinable
    monitor_worker_thread,  \* worker std::thread: TRUE iff joinable
    pc,                     \* position of each API caller thread
    worker_pc,              \* position of the worker thread (monitor_worker_loop)
    worker_path,            \* path the worker holds ("" when none)
    worker_cb,              \* callback snapshot taken by process_queued_path
    watcher_pc,             \* position of the watcher thread
    now,                    \* std::chrono::steady_clock
    evt_after,              \* history: paths with an event since their last completed worker pass
    \* ---- YaraScanner scan pipeline (scan_file / scan_file_internal) ----
    initialized,            \* bool initialized
    full_scan_override,     \* std::atomic<bool>
    total_count,            \* std::atomic<uint64_t>
    completed_count,        \* std::atomic<uint64_t>
    spc,                    \* position of the scanning thread in scan_file_internal
    file,                   \* the file being scanned (what the filesystem and the hashes say)
    cb_set,                 \* the callback argument is a non-empty std::function
    emitted,                \* results delivered to the caller's sink during this scan
    ctx_matched,            \* ScanContext::matched_rules
    scan_rc,                \* outcome of the content-scan call of this scan
    rule_hits,              \* history: rule identifiers the content scanner reported
    \* ---- YaraScanner folder scan, throttle and progress ----
    throttle_duty_cycle,    \* double throttle_duty_cycle, in percent
    throttle_max_sleep_ms,  \* int throttle_max_sleep_ms
    in_folder,              \* the scanning thread is inside scan_folder
    folder_left,            \* regular files the second directory walk has still to visit
    visit_base,             \* history: completed_count when the current visit began
    last_throttle,          \* history: the throttle call that followed the last visited file
    percent,                \* the last value returned by get_progress_percent
    scan_path,              \* file_path of the scan, as character codes
    \* ---- QuarantineManager ----
    fs_files,               \* files outside the quarantine folder: path -> content
    store_files,            \* files in the quarantine folder: stored name -> content
    quarantine_files,       \* table quarantine_files, oldest row first
    whitelist_db,           \* table whitelist: rows (hash, hash_type)
    next_stored,            \* number of the next unique stored filename
    free_low,               \* the volume's free space is below quarantine_safe_free_bytes
    q_seq,                  \* history: parity of the number of QuarantineManager calls made
    prune_log,              \* history: what prune_quarantine_if_needed did in the last call
    q_result,               \* the last QuarantineManager call, what it returned, whether it upserted the whitelist
    origin,                 \* history: stored name -> path and content it was made from
    \* ---- YaraScanner engine resources (init / shutdown) ----
    db,                     \* sqlite3* db: 0 = nullptr, else the connection it points to
    stmts,                  \* the four sqlite3_stmt* members: 0 = nullptr, else the connection of the statement
    yr_rules,               \* YR_RULES* rules: 0 = nullptr, else the rule set it points to
    open_conns,             \* sqlite connections that are open
    live_stmts,             \* prepared statements not finalized: <<statement, connection>>
    live_rules,             \* rule sets loaded and not destroyed
    yr_inits,               \* number of yr_initialize calls that returned ERROR_SUCCESS
    yr_finals,              \* number of yr_finalize calls
    n_init,                 \* number of init calls made
    status_log,             \* severities the last init call delivered to status_callback
    init_ret,               \* what the last init call returned and whether it had a status sink
    alive,                  \* the YaraScanner object has not been destroyed
    \* ---- YaraScanner engine mutex (scan_mutex) and the threads that scan ----
    sm_pc,                  \* position of each scanning thread in scan_file / scan_file_internal
    scan_mutex,             \* std::mutex scan_mutex: the thread that holds it, or "none"
    sm_use,                 \* the statement or rule set a scanning thread is executing on
    \* ---- process_queued_path: the file-stability check of one queued path ----
    stab                    \* position, callback snapshot, loop locals, the file, history of samples

monitorVars == <<monitor_state, monitoring, callbacks_enabled, realtime_callback,
                 path_queue, last_event_time, monitor_thread, monitor_worker_thread,
                 pc, worker_pc, worker_path, worker_cb, watcher_pc, now, evt_after>>

scanVars == <<initialized, full_scan_override, total_count, completed_count, spc,
              file, cb_set, emitted, ctx_matched, scan_rc, rule_hits>>

folderVars == <<throttle_duty_cycle, throttle_max_sleep_ms, in_folder, folder_left,
                visit_base, last_throttle, percent, scan_path>>

engineVars == <<db, stmts, yr_rules, open_conns, live_stmts, live_rules, yr_inits,
                yr_finals, n_init, status_log, init_ret, alive, sm_pc, scan_mutex, sm_use, stab>>

qVars == <<fs_files, store_files, quarantine_files, whitelist_db, next_stored,
           free_low, q_seq, prune_log, q_result, origin>>

otherVars == <<scanVars, qVars, folderVars, engineVars>>

vars == <<monitorVars, scanVars, qVars, folderVars, engineVars>>

\* what no lifecycle step of start_realtime / stop_realtime touches
restM == <<now, evt_after, otherVars>>

\* ------------------------------------------------------------------------
\* Bounds of the model
\* ------------------------------------------------------------------------
MaxClock == 400      \* the steady clock is modelled up to MaxClock ms
TickMs == 400        \* granularity of the modelled clock, ms

Callers == {"t1", "t2"}
Paths == {"pA", "pB"}

NoCallback == "none"
NoDigest == "nullopt"
NoFile == [excluded |-> FALSE, exists |-> FALSE, size |-> 0, trusted |-> FALSE,
           md5 |-> NoDigest, sha1 |-> NoDigest, sha256 |-> NoDigest]
EmptyMap == [q \in {} |-> 0]

\* ------------------------------------------------------------------------
\* Event queue: enqueue_path_for_scan / pop_queued_path
\* ------------------------------------------------------------------------
InQueue(q, p) == \E i \in 1..Len(q) : q[i] = p

\* enqueue_path_for_scan without the already_in_queue scan
EnqueueQueueNoDedup(q, m, p) ==
    IF p = "" THEN q ELSE Append(q, p)

\* variant: an event for a queued path moves the path to the back
EnqueueQueueMoveToBack(q, m, p) ==
    IF p = "" THEN q
    ELSE Append(SelectSeq(q, LAMBDA x : x # p), p)

\* the deque after enqueue_path_for_scan(p) with map m
EnqueueQueue(q, m, p) ==
    IF p = "" THEN q
    ELSE IF p \notin DOMAIN m THEN Append(q, p)
    ELSE IF InQueue(q, p) THEN q ELSE Append(q, p)

\* the map after enqueue_path_for_scan(p) at time t
EnqueueMap(m, p, t) ==
    IF p = "" THEN m
    ELSE [x \in (DOMAIN m) \cup {p} |-> IF x = p THEN t ELSE m[x]]

\* ------------------------------------------------------------------------
\* start_realtime, one atomic step per shared-memory access
\* ------------------------------------------------------------------------
SetPc(t, l) == pc' = [pc EXCEPT ![t] = l]

\* start_realtime with a plain store in place of the compare-exchange
StartCasNoGuard(t) ==
    /\ pc[t] = "idle"
    /\ monitor_state' = "Starting"
    /\ SetPc(t, "s_install")
    /\ UNCHANGED <<monitoring, callbacks_enabled, realtime_callback, path_queue,
                   last_event_time, monitor_thread, monitor_worker_thread,
                   worker_pc, worker_path, worker_cb, watcher_pc, restM>>

\* start_realtime installing the callback before the state check
StartCasInstallFirst(t) ==
    /\ pc[t] = "idle"
    /\ realtime_callback' = t
    /\ callbacks_enabled' = TRUE
    /\ IF monitor_state = "Stopped"
       THEN /\ monitor_state' = "Starting"
            /\ SetPc(t, "s_monitoring")
       ELSE /\ SetPc(t, "s_ret_false_cas")
            /\ UNCHANGED monitor_state
    /\ UNCHANGED <<monitoring, path_queue, last_event_time, monitor_thread,
                   monitor_worker_thread, worker_pc, worker_path, worker_cb,
                   watcher_pc, restM>>

\* compare_exchange_strong(Stopped -> Starting); failure returns false
StartCas(t) ==
    /\ pc[t] = "idle"
    /\ IF monitor_state = "Stopped"
       THEN /\ monitor_state' = "Starting"
            /\ SetPc(t, "s_install")
       ELSE /\ SetPc(t, "s_ret_false_cas")
            /\ UNCHANGED monitor_state
    /\ UNCHANGED <<monitoring, callbacks_enabled, realtime_callback, path_queue,
                   last_event_time, monitor_thread, monitor_worker_thread,
                   worker_pc, worker_path, worker_cb, watcher_pc, restM>>

\* under callback_mutex: install the callback, callbacks_enabled = true
StartInstall(t) ==
    /\ pc[t] = "s_install"
    /\ realtime_callback' = t
    /\ callbacks_enabled' = TRUE
    /\ SetPc(t, "s_monitoring")
    /\ UNCHANGED <<monitor_state, monitoring, path_queue, last_event_time,
                   monitor_thread, monitor_worker_thread, worker_pc, worker_path,
                   worker_cb, watcher_pc, restM>>

StartMonitoring(t) ==
    /\ pc[t] = "s_monitoring"
    /\ monitoring' = TRUE
    /\ SetPc(t, "s_spawn_worker")
    /\ UNCHANGED <<monitor_state, callbacks_enabled, realtime_callback, path_queue,
                   last_event_time, monitor_thread, monitor_worker_thread,
                   worker_pc, worker_path, worker_cb, watcher_pc, restM>>

\* std::thread(&monitor_worker_loop) succeeds
StartSpawnWorker(t) ==
    /\ pc[t] = "s_spawn_worker"
    /\ monitor_worker_thread' = TRUE
    /\ worker_pc' = "w_loop"
    /\ SetPc(t, "s_spawn_watcher")
    /\ UNCHANGED <<monitor_state, monitoring, callbacks_enabled, realtime_callback,
                   path_queue, last_event_time, monitor_thread, worker_path,
                   worker_cb, watcher_pc, restM>>

\* std::thread(&monitor_worker_loop) throws: monitoring.store(false)
StartSpawnWorkerFail(t) ==
    /\ pc[t] = "s_spawn_worker"
    /\ monitoring' = FALSE
    /\ SetPc(t, "s_fail_state")
    /\ UNCHANGED <<monitor_state, callbacks_enabled, realtime_callback, path_queue,
                   last_event_time, monitor_thread, monitor_worker_thread,
                   worker_pc, worker_path, worker_cb, watcher_pc, restM>>

\* the watcher thread is spawned
StartSpawnWatcher(t) ==
    /\ pc[t] = "s_spawn_watcher"
    /\ monitor_thread' = TRUE
    /\ watcher_pc' = "v_loop"
    /\ SetPc(t, "s_running")
    /\ UNCHANGED <<monitor_state, monitoring, callbacks_enabled, realtime_callback,
                   path_queue, last_event_time, monitor_worker_thread, worker_pc,
                   worker_path, worker_cb, restM>>

\* spawning the watcher throws: monitoring.store(false)
StartSpawnWatcherFail(t) ==
    /\ pc[t] = "s_spawn_watcher"
    /\ monitoring' = FALSE
    /\ SetPc(t, "s_fail_join")
    /\ UNCHANGED <<monitor_state, callbacks_enabled, realtime_callback, path_queue,
                   last_event_time, monitor_thread, monitor_worker_thread,
                   worker_pc, worker_path, worker_cb, watcher_pc, restM>>

\* cleanup: monitor_worker_thread.join()
StartFailJoin(t) ==
    /\ pc[t] = "s_fail_join"
    /\ IF monitor_worker_thread
       THEN /\ worker_pc = "w_done"
            /\ worker_pc' = "w_none"
            /\ monitor_worker_thread' = FALSE
       ELSE UNCHANGED <<worker_pc, monitor_worker_thread>>
    /\ SetPc(t, "s_fail_state")
    /\ UNCHANGED <<monitor_state, monitoring, callbacks_enabled, realtime_callback,
                   path_queue, last_event_time, monitor_thread, worker_path,
                   worker_cb, watcher_pc, restM>>

\* monitor_state.store(Stopped); return false
StartFailState(t) ==
    /\ pc[t] = "s_fail_state"
    /\ monitor_state' = "Stopped"
    /\ SetPc(t, "s_ret_false_spawn")
    /\ UNCHANGED <<monitoring, callbacks_enabled, realtime_callback, path_queue,
                   last_event_time, monitor_thread, monitor_worker_thread,
                   worker_pc, worker_path, worker_cb, watcher_pc, restM>>

\* monitor_state.store(Running); return true
StartRunning(t) ==
    /\ pc[t] = "s_running"
    /\ monitor_state' = "Running"
    /\ SetPc(t, "s_ret_true")
    /\ UNCHANGED <<monitoring, callbacks_enabled, realtime_callback, path_queue,
                   last_event_time, monitor_thread, monitor_worker_thread,
                   worker_pc, worker_path, worker_cb, watcher_pc, restM>>

\* the call returned: the caller thread is free for its next call
Return(t) ==
    /\ pc[t] \in {"s_ret_true", "s_ret_false_cas", "s_ret_false_spawn", "t_ret"}
    /\ SetPc(t, "idle")
    /\ UNCHANGED <<monitor_state, monitoring, callbacks_enabled, realtime_callback,
                   path_queue, last_event_time, monitor_thread, monitor_worker_thread,
                   worker_pc, worker_path, worker_cb, watcher_pc, restM>>

\* ------------------------------------------------------------------------
\* stop_realtime
\* ------------------------------------------------------------------------
\* compare_exchange_strong(Running -> Stopping)
StopCas(t) ==
    /\ pc[t] = "idle"
    /\ IF monitor_state = "Running"
       THEN /\ monitor_state' = "Stopping"
            /\ SetPc(t, "t_monitoring")
       ELSE /\ SetPc(t, "t_notrunning")
            /\ UNCHANGED monitor_state
    /\ UNCHANGED <<monitoring, callbacks_enabled, realtime_callback, path_queue,
                   last_event_time, monitor_thread, monitor_worker_thread,
                   worker_pc, worker_path, worker_cb, watcher_pc, restM>>

\* not Running: monitoring.store(false); notify_all; return
StopNotRunning(t) ==
    /\ pc[t] = "t_notrunning"
    /\ monitoring' = FALSE
    /\ SetPc(t, "t_ret")
    /\ UNCHANGED <<monitor_state, callbacks_enabled, realtime_callback, path_queue,
                   last_event_time, monitor_thread, monitor_worker_thread,
                   worker_pc, worker_path, worker_cb, watcher_pc, restM>>

\* variant: the stop request leaves monitoring set
StopMonitoringNoStore(t) ==
    /\ pc[t] = "t_monitoring"
    /\ SetPc(t, "t_callback")
    /\ UNCHANGED <<monitor_state, monitoring, callbacks_enabled, realtime_callback, path_queue,
                   last_event_time, monitor_thread, monitor_worker_thread,
                   worker_pc, worker_path, worker_cb, watcher_pc, restM>>

\* monitoring.store(false); notify_all
StopMonitoring(t) ==
    /\ pc[t] = "t_monitoring"
    /\ monitoring' = FALSE
    /\ SetPc(t, "t_callback")
    /\ UNCHANGED <<monitor_state, callbacks_enabled, realtime_callback, path_queue,
                   last_event_time, monitor_thread, monitor_worker_thread,
                   worker_pc, worker_path, worker_cb, watcher_pc, restM>>

\* under callback_mutex: callbacks_enabled = false, the stored callback is moved out
StopCallback(t) ==
    /\ pc[t] = "t_callback"
    /\ callbacks_enabled' = FALSE
    /\ realtime_callback' = NoCallback
    /\ SetPc(t, "t_join_watcher")
    /\ UNCHANGED <<monitor_state, monitoring, path_queue, last_event_time,
                   monitor_thread, monitor_worker_thread, worker_pc, worker_path,
                   worker_cb, watcher_pc, restM>>

\* if (monitor_thread.joinable()) monitor_thread.join()
StopJoinWatcher(t) ==
    /\ pc[t] = "t_join_watcher"
    /\ IF monitor_thread
       THEN /\ watcher_pc = "v_done"
            /\ watcher_pc' = "v_none"
            /\ monitor_thread' = FALSE
       ELSE UNCHANGED <<watcher_pc, monitor_thread>>
    /\ SetPc(t, "t_join_worker")
    /\ UNCHANGED <<monitor_state, monitoring, callbacks_enabled, realtime_callback,
                   path_queue, last_event_time, monitor_worker_thread, worker_pc,
                   worker_path, worker_cb, restM>>

\* if (monitor_worker_thread.joinable()) monitor_worker_thread.join()
StopJoinWorker(t) ==
    /\ pc[t] = "t_join_worker"
    /\ IF monitor_worker_thread
       THEN /\ worker_pc = "w_done"
            /\ worker_pc' = "w_none"
            /\ monitor_worker_thread' = FALSE
       ELSE UNCHANGED <<worker_pc, monitor_worker_thread>>
    /\ SetPc(t, "t_clear")
    /\ UNCHANGED <<monitor_state, monitoring, callbacks_enabled, realtime_callback,
                   path_queue, last_event_time, monitor_thread, worker_path,
                   worker_cb, watcher_pc, restM>>

\* under queue_mutex: path_queue.clear(); last_event_time.clear()
StopClear(t) ==
    /\ pc[t] = "t_clear"
    /\ path_queue' = <<>>
    /\ last_event_time' = EmptyMap
    /\ SetPc(t, "t_state")
    /\ UNCHANGED <<monitor_state, monitoring, callbacks_enabled, realtime_callback,
                   monitor_thread, monitor_worker_thread, worker_pc, worker_path,
                   worker_cb, watcher_pc, restM>>

\* monitor_state.store(Stopped); return
StopState(t) ==
    /\ pc[t] = "t_state"
    /\ monitor_state' = "Stopped"
    /\ SetPc(t, "t_ret")
    /\ UNCHANGED <<monitoring, callbacks_enabled, realtime_callback, path_queue,
                   last_event_time, monitor_thread, monitor_worker_thread,
                   worker_pc, worker_path, worker_cb, watcher_pc, restM>>

\* ------------------------------------------------------------------------
\* Watcher thread (windows_watcher_thread_func, per-directory worker)
\* ------------------------------------------------------------------------
\* while (this->monitoring.load())
WatcherCheck ==
    /\ watcher_pc = "v_loop"
    /\ watcher_pc' = IF monitoring THEN "v_wait" ELSE "v_done"
    /\ UNCHANGED <<monitor_state, monitoring, callbacks_enabled, realtime_callback,
                   path_queue, last_event_time, monitor_thread, monitor_worker_thread,
                   pc, worker_pc, worker_path, worker_cb, restM>>

\* a change record for regular file p: enqueue_path_for_scan(p)
WatcherEvent(p) ==
    /\ watcher_pc = "v_wait"
    /\ path_queue' = EnqueueQueue(path_queue, last_event_time, p)
    /\ last_event_time' = EnqueueMap(last_event_time, p, now)
    /\ evt_after' = evt_after \cup {p}
    /\ UNCHANGED <<monitor_state, monitoring, callbacks_enabled, realtime_callback,
                   monitor_thread, monitor_worker_thread, pc, worker_pc, worker_path,
                   worker_cb, watcher_pc, now, otherVars>>

\* no (more) records: wait timed out or the buffer is exhausted; back to the loop head
WatcherIdle ==
    /\ watcher_pc = "v_wait"
    /\ watcher_pc' = "v_loop"
    /\ UNCHANGED <<monitor_state, monitoring, callbacks_enabled, realtime_callback,
                   path_queue, last_event_time, monitor_thread, monitor_worker_thread,
                   pc, worker_pc, worker_path, worker_cb, restM>>

\* ------------------------------------------------------------------------
\* Worker thread (monitor_worker_loop, process_queued_path)
\* ------------------------------------------------------------------------
\* while (monitoring.load())
WorkerCheck ==
    /\ worker_pc = "w_loop"
    /\ worker_pc' = IF monitoring THEN "w_wait" ELSE "w_drain"
    /\ UNCHANGED <<monitor_state, monitoring, callbacks_enabled, realtime_callback,
                   path_queue, last_event_time, monitor_thread, monitor_worker_thread,
                   pc, worker_path, worker_cb, watcher_pc, restM>>

\* queue_cv.wait_for(lk, debounce_threshold, pred) returned (signalled or timed
\* out); under the lock: break, or pop the front, or go round again
WorkerWait ==
    /\ worker_pc = "w_wait"
    /\ IF ~monitoring /\ path_queue = <<>>
       THEN /\ worker_pc' = "w_drain"
            /\ UNCHANGED <<path_queue, worker_path>>
       ELSE IF path_queue # <<>>
       THEN /\ worker_path' = Head(path_queue)
            /\ path_queue' = Tail(path_queue)
            /\ worker_pc' = "w_snap"
       ELSE /\ worker_pc' = "w_loop"
            /\ UNCHANGED <<path_queue, worker_path>>
    /\ UNCHANGED <<monitor_state, monitoring, callbacks_enabled, realtime_callback,
                   last_event_time, monitor_thread, monitor_worker_thread,
                   pc, worker_cb, watcher_pc, restM>>

\* drain: while (pop_queued_path(leftover)) process_queued_path(leftover)
WorkerDrain ==
    /\ worker_pc = "w_drain"
    /\ IF path_queue = <<>>
       THEN /\ worker_pc' = "w_done"
            /\ UNCHANGED <<path_queue, worker_path>>
       ELSE /\ worker_path' = Head(path_queue)
            /\ path_queue' = Tail(path_queue)
            /\ worker_pc' = "d_snap"
    /\ UNCHANGED <<monitor_state, monitoring, callbacks_enabled, realtime_callback,
                   last_event_time, monitor_thread, monitor_worker_thread,
                   pc, worker_cb, watcher_pc, restM>>

AfterPath(l) == IF l \in {"w_snap", "w_scan", "w_call"} THEN "w_loop" ELSE "w_drain"

\* process_queued_path: snapshot the callback under callback_mutex; return if it
\* is empty or the path is not an existing regular file
WorkerSnapshot(exists) ==
    /\ worker_pc \in {"w_snap", "d_snap"}
    /\ IF realtime_callback = NoCallback \/ ~exists
       THEN /\ worker_pc' = AfterPath(worker_pc)
            /\ worker_path' = ""
            /\ worker_cb' = NoCallback
       ELSE /\ worker_pc' = IF worker_pc = "w_snap" THEN "w_scan" ELSE "d_scan"
            /\ worker_cb' = realtime_callback
            /\ UNCHANGED worker_path
    /\ UNCHANGED <<monitor_state, monitoring, callbacks_enabled, realtime_callback,
                   path_queue, last_event_time, monitor_thread, monitor_worker_thread,
                   pc, watcher_pc, restM>>

\* process_queued_path: the file-stability check, then scan_file_internal with
\* guarded_cb. The scan is silent, or it has one result for guarded_cb, which
\* goes through call_callback_if_python_ready(cb, r, this): dropped when
\* callbacks_enabled reads false, else cb(r) is about to be called
WorkerScan(res) ==
    /\ worker_pc \in {"w_scan", "d_scan"}
    /\ IF res /\ callbacks_enabled
       THEN /\ worker_pc' = IF worker_pc = "w_scan" THEN "w_call" ELSE "d_call"
            /\ UNCHANGED <<evt_after, worker_path, worker_cb>>
       ELSE /\ worker_pc' = AfterPath(worker_pc)
            /\ evt_after' = evt_after \ {worker_path}
            /\ worker_path' = ""
            /\ worker_cb' = NoCallback
    /\ UNCHANGED <<monitor_state, monitoring, callbacks_enabled, realtime_callback,
                   path_queue, last_event_time, monitor_thread, monitor_worker_thread,
                   pc, watcher_pc, now, otherVars>>

\* call_callback_if_python_ready: cb(r), the real-time sink receives the
\* result; scan_file_internal and process_queued_path return
WorkerCall ==
    /\ worker_pc \in {"w_call", "d_call"}
    /\ worker_pc' = AfterPath(worker_pc)
    /\ evt_after' = evt_after \ {worker_path}
    /\ worker_path' = ""
    /\ worker_cb' = NoCallback
    /\ UNCHANGED <<monitor_state, monitoring, callbacks_enabled, realtime_callback,
                   path_queue, last_event_time, monitor_thread, monitor_worker_thread,
                   pc, watcher_pc, now, otherVars>>

\* the steady clock advances
Tick ==
    /\ now + TickMs <= MaxClock
    /\ now' = now + TickMs
    /\ UNCHANGED <<monitor_state, monitoring, callbacks_enabled, realtime_callback,
                   path_queue, last_event_time, monitor_thread, monitor_worker_thread,
                   pc, worker_pc, worker_path, worker_cb, watcher_pc, evt_after, otherVars>>

\* the scan pipeline before any scan: engine initialised, counters at zero
ScanIdle ==
    /\ initialized = TRUE
    /\ full_scan_override = FALSE
    /\ total_count = 0
    /\ completed_count = 0
    /\ spc = "idle"
    /\ file = NoFile
    /\ cb_set = FALSE
    /\ emitted = <<>>
    /\ ctx_matched = <<>>
    /\ rule_hits = <<>>
    /\ scan_rc = "none"

\* the quarantine manager before any call, nothing on disk
NoThrottle == [ran |-> FALSE, work |-> 0, sleep |-> 0]

\* member initialisers of the throttle settings; no folder scan under way
FolderIdle ==
    /\ throttle_duty_cycle = 50
    /\ throttle_max_sleep_ms = 500
    /\ in_folder = FALSE
    /\ folder_left = 0
    /\ visit_base = 0
    /\ last_throttle = NoThrottle
    /\ percent = 0
    /\ scan_path = <<>>

QuarantineIdle ==
    /\ fs_files = EmptyMap
    /\ store_files = EmptyMap
    /\ quarantine_files = <<>>
    /\ whitelist_db = {}
    /\ next_stored = 1
    /\ free_low = FALSE
    /\ q_seq = 0
    /\ prune_log = [ran |-> FALSE, ok |-> FALSE, needed |-> 0, pre |-> <<>>, post |-> <<>>]
    /\ origin = EmptyMap
    /\ q_result = [op |-> "none", status |-> "", stored |-> 0, path |-> "",
                    whitelisted |-> FALSE]

StmtNames == {"md5", "sha1", "sha256", "whitelist"}

ScanThreads == {"s1", "s2"}

NoUse == [kind |-> "none", id |-> 0]

\* process_queued_path has not been called
NoStableCheck ==
    [pc |-> "idle", cb |-> FALSE, regular |-> TRUE, size |-> 0, i |-> 0, last_size |-> 0,
     stable |-> FALSE, samples |-> <<>>, scans |-> 0, always_regular |-> TRUE]


\* the members of a freshly constructed YaraScanner, and a library never initialized
EngineIdle ==
    /\ db = 0
    /\ stmts = [s \in StmtNames |-> 0]
    /\ yr_rules = 0
    /\ open_conns = {}
    /\ live_stmts = {}
    /\ live_rules = {}
    /\ yr_inits = 0
    /\ yr_finals = 0
    /\ n_init = 0
    /\ status_log = <<>>
    /\ init_ret = [called |-> FALSE, ret |-> FALSE, sink |-> FALSE, fail |-> "none"]
    /\ alive = TRUE
    /\ sm_pc = [t \in ScanThreads |-> "idle"]
    /\ scan_mutex = "none"
    /\ sm_use = [t \in ScanThreads |-> NoUse]
    /\ stab = NoStableCheck

\* the members after one successful init(rules_path, db_path, status_callback)
EngineReady ==
    /\ db = 1
    /\ stmts = [s \in StmtNames |-> 1]
    /\ yr_rules = 1
    /\ open_conns = {1}
    /\ live_stmts = {<<s, 1>> : s \in StmtNames}
    /\ live_rules = {1}
    /\ yr_inits = 1
    /\ yr_finals = 0
    /\ n_init = 1
    /\ status_log = <<"NOTICE", "NOTICE", "NOTICE", "NOTICE">>
    /\ init_ret = [called |-> TRUE, ret |-> TRUE, sink |-> TRUE, fail |-> "none"]
    /\ alive = TRUE
    /\ sm_pc = [t \in ScanThreads |-> "idle"]
    /\ scan_mutex = "none"
    /\ sm_use = [t \in ScanThreads |-> NoUse]
    /\ stab = NoStableCheck

\* the real-time monitor as constructed
MonitorIdle ==
    /\ monitor_state = "Stopped"
    /\ monitoring = FALSE
    /\ callbacks_enabled = FALSE
    /\ realtime_callback = NoCallback
    /\ path_queue = <<>>
    /\ last_event_time = EmptyMap
    /\ monitor_thread = FALSE
    /\ monitor_worker_thread = FALSE
    /\ pc = [t \in Callers |-> "idle"]
    /\ worker_pc = "w_none"
    /\ worker_path = ""
    /\ worker_cb = NoCallback
    /\ watcher_pc = "v_none"
    /\ now = 0
    /\ evt_after = {}

Init ==
    /\ MonitorIdle
    /\ EngineReady
    /\ ScanIdle
    /\ QuarantineIdle
    /\ FolderIdle

Next ==
    \/ \E t \in Callers : StartCas(t)
    \/ \E t \in Callers : StartInstall(t)
    \/ \E t \in Callers : StartMonitoring(t)
    \/ \E t \in Callers : StartSpawnWorker(t)
    \/ \E t \in Callers : StartSpawnWorkerFail(t)
    \/ \E t \in Callers : StartSpawnWatcher(t)
    \/ \E t \in Callers : StartSpawnWatcherFail(t)
    \/ \E t \in Callers : StartFailJoin(t)
    \/ \E t \in Callers : StartFailState(t)
    \/ \E t \in Callers : StartRunning(t)
    \/ \E t \in Callers : StopCas(t)
    \/ \E t \in Callers : StopNotRunning(t)
    \/ \E t \in Callers : StopMonitoring(t)
    \/ \E t \in Callers : StopCallback(t)
    \/ \E t \in Callers : StopJoinWatcher(t)
    \/ \E t \in Callers : StopJoinWorker(t)
    \/ \E t \in Callers : StopClear(t)
    \/ \E t \in Callers : StopState(t)
    \/ \E t \in Callers : Return(t)
    \/ WatcherCheck
    \/ \E p \in Paths : WatcherEvent(p)
    \/ WatcherIdle
    \/ WorkerCheck
    \/ WorkerWait
    \/ WorkerDrain
    \/ \E e \in BOOLEAN : WorkerSnapshot(e)
    \/ \E res \in BOOLEAN : WorkerScan(res)
    \/ WorkerCall
    \/ Tick

Spec == Init /\ [][Next]_vars

\* ------------------------------------------------------------------------
\* The watcher thread as poller (monitor_loop): the thread function where no
\* change API is used, and the fallback of windows_watcher_thread_func when the
\* watch path yields no directory
\* ------------------------------------------------------------------------
\* what a real-time scan hands to its callback: nothing; a POLICY / WHITELIST
\* notice (passed with the owner); a detection or an ERROR result (passed
\* without the owner)
ScanResults == {"none", "notice", "detect"}

\* the single API thread of the polling configuration
RtCaller == "t1"

\* start_realtime spawns the watcher thread, which enters monitor_loop
StartSpawnPoller(t) ==
    /\ pc[t] = "s_spawn_watcher"
    /\ monitor_thread' = TRUE
    /\ watcher_pc' = "p_loop"
    /\ SetPc(t, "s_running")
    /\ UNCHANGED <<monitor_state, monitoring, callbacks_enabled, realtime_callback,
                   path_queue, last_event_time, monitor_worker_thread, worker_pc,
                   worker_path, worker_cb, restM>>

\* while (monitoring.load())
PollerCheck ==
    /\ watcher_pc = "p_loop"
    /\ watcher_pc' = IF monitoring THEN "p_wait" ELSE "v_done"
    /\ UNCHANGED <<monitor_state, monitoring, callbacks_enabled, realtime_callback,
                   path_queue, last_event_time, monitor_thread, monitor_worker_thread,
                   pc, worker_pc, worker_path, worker_cb, restM>>

\* the directory walk of this round is over
PollerIdle ==
    /\ watcher_pc = "p_wait"
    /\ watcher_pc' = "p_loop"
    /\ UNCHANGED <<monitor_state, monitoring, callbacks_enabled, realtime_callback,
                   path_queue, last_event_time, monitor_thread, monitor_worker_thread,
                   pc, worker_pc, worker_path, worker_cb, restM>>

\* the walk meets a new or a modified file: the callback is copied under
\* callback_mutex and, if not empty, the file is scanned
PollerSnapshot ==
    /\ watcher_pc = "p_wait"
    /\ realtime_callback # NoCallback
    /\ watcher_pc' = "p_scan"
    /\ UNCHANGED <<monitor_state, monitoring, callbacks_enabled, realtime_callback,
                   path_queue, last_event_time, monitor_thread, monitor_worker_thread,
                   pc, worker_pc, worker_path, worker_cb, restM>>

\* scan_file_internal(p, cb) for a new file, scan_file_internal(p, guarded_cb)
\* for a modified one. callbacks_enabled is read for a notice and for every
\* result that goes through guarded_cb; a detection or ERROR result of a new
\* file reaches cb without that check
PollerScan(modified, res) ==
    /\ watcher_pc = "p_scan"
    /\ watcher_pc' = IF res = "none" THEN "p_wait"
                     ELSE IF (modified \/ res = "notice") /\ ~callbacks_enabled THEN "p_wait"
                     ELSE "p_call"
    /\ UNCHANGED <<monitor_state, monitoring, callbacks_enabled, realtime_callback,
                   path_queue, last_event_time, monitor_thread, monitor_worker_thread,
                   pc, worker_pc, worker_path, worker_cb, restM>>

\* cb(r): the real-time sink receives the result; the walk goes on
PollerCall ==
    /\ watcher_pc = "p_call"
    /\ watcher_pc' = "p_wait"
    /\ UNCHANGED <<monitor_state, monitoring, callbacks_enabled, realtime_callback,
                   path_queue, last_event_time, monitor_thread, monitor_worker_thread,
                   pc, worker_pc, worker_path, worker_cb, restM>>

NextRt ==
    \/ StartCas(RtCaller)
    \/ StartInstall(RtCaller)
    \/ StartMonitoring(RtCaller)
    \/ StartSpawnWorker(RtCaller)
    \/ StartSpawnWorkerFail(RtCaller)
    \/ StartSpawnPoller(RtCaller)
    \/ StartSpawnWatcherFail(RtCaller)
    \/ StartFailJoin(RtCaller)
    \/ StartFailState(RtCaller)
    \/ StartRunning(RtCaller)
    \/ StopCas(RtCaller)
    \/ StopNotRunning(RtCaller)
    \/ StopMonitoring(RtCaller)
    \/ StopCallback(RtCaller)
    \/ StopJoinWatcher(RtCaller)
    \/ StopJoinWorker(RtCaller)
    \/ StopClear(RtCaller)
    \/ StopState(RtCaller)
    \/ Return(RtCaller)
    \/ PollerCheck
    \/ PollerIdle
    \/ PollerSnapshot
    \/ \E m \in BOOLEAN, res \in ScanResults : PollerScan(m, res)
    \/ PollerCall
    \/ WorkerCheck
    \/ WorkerWait
    \/ WorkerDrain
    \/ Tick

SpecRt == Init /\ [][NextRt]_vars

\* ========================================================================
\* On-demand scan pipeline: scan_file -> scan_file_internal -> rule_match_callback
\* ========================================================================
\* policy sizes, in MiB
MAX_FILE_SIZE_SKIP == 500
PARTIAL_FILE_MIN == 10
PARTIAL_FILE_MAX == 500

Sizes == {PARTIAL_FILE_MIN, PARTIAL_FILE_MIN + 1, MAX_FILE_SIZE_SKIP, MAX_FILE_SIZE_SKIP + 1}
Rules == {"r1", "r2", "r3"}

\* the signature store: one table per digest type, digest -> malware name
SigTable(hash_type) ==
    CASE hash_type = "MD5"    -> [h \in {"md5_bad"} |-> "Trojan.Md5Row"]
      [] hash_type = "SHA1"   -> [h \in {"sha1_bad"} |-> "Worm.Sha1Row"]
      [] hash_type = "SHA256" -> [h \in {"sha256_bad"} |-> "Virus.Sha256Row"]

\* rows (hash, hash_type) of the whitelist table
WhitelistTable == { <<"md5_wl", "md5">>, <<"sha1_wl", "sha1">>, <<"sha256_wl", "sha256">> }

\* what compute_all_hashes can return for a file: nullopt when the digest could
\* not be computed, else a digest that is clean, in the signature table or in
\* the whitelist
Md5Values == {NoDigest, "md5_clean", "md5_bad", "md5_wl"}
Sha1Values == {NoDigest, "sha1_clean", "sha1_bad", "sha1_wl"}
Sha256Values == {NoDigest, "sha256_clean", "sha256_bad", "sha256_wl"}

Files ==
    [excluded : BOOLEAN, exists : BOOLEAN, size : Sizes, trusted : BOOLEAN,
     md5 : Md5Values, sha1 : Sha1Values, sha256 : Sha256Values]

check_hash_whitelist(hex_hash, hash_type) == <<hex_hash, hash_type>> \in WhitelistTable

check_hash_in_db(hex_hash, hash_type) == hex_hash \in DOMAIN SigTable(hash_type)

MkResult(mal, sev, src, d, h, ht, name, rules) ==
    [isMalware |-> mal, severity |-> sev, detection_source |-> src, desc |-> d,
     hash |-> h, hash_type |-> ht, malware_name |-> name,
     md5 |-> "", sha1 |-> "", sha256 |-> "",
     matched_rules_count |-> Len(rules), matched_rules |-> rules]

Notice(src, d) == MkResult(FALSE, "NOTICE", src, d, "", "", "", <<>>)

ErrorResult(d) == MkResult(FALSE, "ERROR", "", d, "", "", "", <<>>)

HashResult(h, ht) ==
    MkResult(TRUE, "High", "HASH",
             CASE ht = "SHA256" -> "Matched SHA256 in DB"
               [] ht = "SHA1"   -> "Matched SHA1 in DB"
               [] ht = "MD5"    -> "Matched MD5 in DB",
             h, ht, SigTable(ht)[h], <<>>)

\* the loop of rule_match_callback that appends the identifiers to r.desc:
\* if (i) r.desc += ", "; r.desc += matches_copy[i];
RECURSIVE AppendRules(_, _, _)
AppendRules(d, rules, i) ==
    IF i > Len(rules) THEN d
    ELSE AppendRules(d \o (IF i > 1 THEN ", " ELSE "") \o rules[i], rules, i + 1)

\* a variant of the aggregated detection that writes "rules" for one rule too
YaraResultAlwaysPlural(rules) ==
    LET CtxDigest(opt) == IF opt = NoDigest THEN "" ELSE opt IN
    [MkResult(TRUE, "Warning", "YARA",
              AppendRules("Matched by " \o ToString(Len(rules)) \o " rules: ", rules, 1),
              "", "", "", rules)
       EXCEPT !.md5 = CtxDigest(file.md5), !.sha1 = CtxDigest(file.sha1),
              !.sha256 = CtxDigest(file.sha256)]

\* rule_match_callback, CALLBACK_MSG_SCAN_FINISHED: the aggregated detection
\* for the identifiers collected in the scan context of the file being scanned;
\* a digest is copied from the context when it was computed
\* (if (ctx->md5) r.md5 = *ctx->md5)
YaraResult(rules) ==
    LET CtxDigest(opt) == IF opt = NoDigest THEN "" ELSE opt IN
    [MkResult(TRUE, "Warning", "YARA",
              AppendRules("Matched by " \o ToString(Len(rules))
                             \o (IF Len(rules) = 1 THEN " rule: " ELSE " rules: "), rules, 1),
              "", "", "", rules)
       EXCEPT !.md5 = CtxDigest(file.md5), !.sha1 = CtxDigest(file.sha1),
              !.sha256 = CtxDigest(file.sha256)]

\* call_callback_if_python_ready(cb, r, owner): the sink receives r unless the
\* callback is empty or (an owner being passed) the owner's callbacks are disabled
Deliver(out, r, has_cb, with_owner) ==
    IF ~has_cb THEN out
    ELSE IF with_owner /\ ~callbacks_enabled THEN out
    ELSE Append(out, r)

\* the policy checks made before the engine mutex is taken, in code order
PolicyGateTrustFirst(f, override) ==
    IF f.excluded THEN "excluded"
    ELSE IF ~f.exists THEN "missing"
    ELSE IF ~override /\ f.trusted THEN "trusted"
    ELSE IF f.size > MAX_FILE_SIZE_SKIP /\ ~override THEN "oversized"
    ELSE "pass"

PolicyGate(f, override) ==
    IF f.excluded THEN "excluded"
    ELSE IF ~f.exists THEN "missing"
    ELSE IF f.size > MAX_FILE_SIZE_SKIP /\ ~override THEN "oversized"
    ELSE IF ~override /\ f.trusted THEN "trusted"
    ELSE "pass"

WhitelistHit(f) ==
    \/ f.sha256 # NoDigest /\ check_hash_whitelist(f.sha256, "sha256")
    \/ f.sha1 # NoDigest /\ check_hash_whitelist(f.sha1, "sha1")
    \/ f.md5 # NoDigest /\ check_hash_whitelist(f.md5, "md5")

DigestOf(f, hash_type) ==
    CASE hash_type = "SHA256" -> f.sha256
      [] hash_type = "SHA1"   -> f.sha1
      [] hash_type = "MD5"    -> f.md5

HashOrderWeakFirst == <<"MD5", "SHA1", "SHA256">>

\* the order in which the signature tables are consulted
HashOrder == <<"SHA256", "SHA1", "MD5">>

SigMatches(f, hash_type) ==
    DigestOf(f, hash_type) # NoDigest /\ check_hash_in_db(DigestOf(f, hash_type), hash_type)

\* index in HashOrder of the first table that has the file's digest, 0 if none
SigHit(f) ==
    IF \E i \in 1..Len(HashOrder) : SigMatches(f, HashOrder[i])
    THEN CHOOSE i \in 1..Len(HashOrder) :
            /\ SigMatches(f, HashOrder[i])
            /\ \A j \in 1..(i - 1) : ~SigMatches(f, HashOrder[j])
    ELSE 0

\* scan_file(file_path, callback): reset the progress counters and enter
\* scan_file_internal; the file and the callback (empty or not) are the inputs
ScanFile ==
    /\ spc = "idle"
    /\ IF ~initialized
       THEN /\ spc' = "done"
            /\ UNCHANGED <<total_count, completed_count>>
       ELSE /\ spc' = "gate"
            /\ total_count' = 1
            /\ completed_count' = 0
    /\ \E f \in Files, cbs \in BOOLEAN :
          /\ file' = f
          /\ cb_set' = cbs
    /\ emitted' = <<>>
    /\ UNCHANGED <<initialized, full_scan_override, ctx_matched, rule_hits, scan_rc, monitorVars, engineVars, qVars, folderVars>>

\* scan_file_internal up to the engine mutex: exclusion, existence, size, publisher
ScanGate ==
    /\ spc = "gate"
    /\ LET g == PolicyGate(file, full_scan_override) IN
       CASE g = "excluded" ->
              /\ completed_count' = completed_count + 1
              /\ spc' = "done"
              /\ UNCHANGED emitted
         [] g = "missing" ->
              /\ spc' = "done"
              /\ UNCHANGED <<completed_count, emitted>>
         [] g = "oversized" ->
              /\ emitted' = Deliver(emitted, Notice("POLICY", "Skipped: file too large (>500MB)"),
                                    cb_set, TRUE)
              /\ completed_count' = completed_count + 1
              /\ spc' = "done"
         [] g = "trusted" ->
              /\ emitted' = Deliver(emitted, Notice("POLICY", "Skipped: trusted publisher signature"),
                                    cb_set, TRUE)
              /\ completed_count' = completed_count + 1
              /\ spc' = "done"
         [] g = "pass" ->
              /\ spc' = "hash"
              /\ UNCHANGED <<completed_count, emitted>>
    /\ UNCHANGED <<initialized, full_scan_override, total_count, file, cb_set,
                   ctx_matched, rule_hits, scan_rc, monitorVars, engineVars, qVars, folderVars>>

\* scan_file_internal under the engine mutex: digests, whitelist, signature
\* lookup, then the dispatch to the content scanner by size
ScanHash ==
    /\ spc = "hash"
    /\ IF ~full_scan_override /\ WhitelistHit(file)
       THEN /\ emitted' = Deliver(emitted, Notice("WHITELIST", "Skipped: hash whitelisted"),
                                  cb_set, TRUE)
            /\ completed_count' = completed_count + 1
            /\ spc' = "done"
       ELSE IF SigHit(file) # 0
       THEN /\ emitted' = Deliver(emitted,
                                  HashResult(DigestOf(file, HashOrder[SigHit(file)]),
                                             HashOrder[SigHit(file)]),
                                  cb_set, FALSE)
            /\ spc' = "done"
            /\ UNCHANGED completed_count
       ELSE /\ spc' = IF file.size <= PARTIAL_FILE_MIN THEN "yara"
                      ELSE IF file.size > PARTIAL_FILE_MIN /\ file.size <= PARTIAL_FILE_MAX
                      THEN "read_segments"
                      ELSE "done"
            /\ UNCHANGED <<completed_count, emitted>>
    /\ UNCHANGED <<initialized, full_scan_override, total_count, file, cb_set,
                   ctx_matched, rule_hits, scan_rc, monitorVars, engineVars, qVars, folderVars>>

\* medium files: read_prefix_suffix; on failure the callback is called directly,
\* which throws std::bad_function_call out of the scan when the callback is empty
ScanReadSegments(ok) ==
    /\ spc = "read_segments"
    /\ IF ok
       THEN /\ spc' = "yara"
            /\ UNCHANGED <<emitted, scan_rc>>
       ELSE /\ scan_rc' = "read_fail"
            /\ IF cb_set
               THEN /\ emitted' = Append(emitted,
                                         ErrorResult("Failed to read file segments for partial scan"))
                    /\ spc' = "done"
               ELSE /\ spc' = "threw"
                    /\ UNCHANGED emitted
    /\ UNCHANGED <<initialized, full_scan_override, total_count, completed_count, file,
                   cb_set, ctx_matched, rule_hits, monitorVars, engineVars, qVars, folderVars>>

\* rule_match_callback, CALLBACK_MSG_RULE_MATCHING, with one result per rule
\* delivered as well
YaraMatchEmitEach(r) ==
    /\ spc = "yara"
    /\ \A i \in 1..Len(rule_hits) : rule_hits[i] # r
    /\ ctx_matched' = Append(ctx_matched, r)
    /\ rule_hits' = Append(rule_hits, r)
    /\ emitted' = Deliver(emitted, YaraResult(<<r>>), cb_set, FALSE)
    /\ UNCHANGED <<initialized, full_scan_override, total_count, completed_count, spc,
                   file, cb_set, scan_rc, monitorVars, engineVars, qVars, folderVars>>

\* rule_match_callback, CALLBACK_MSG_RULE_MATCHING: the content scanner reports
\* one more matching rule (each rule at most once per scan)
YaraMatch(r) ==
    /\ spc = "yara"
    /\ \A i \in 1..Len(rule_hits) : rule_hits[i] # r
    /\ ctx_matched' = Append(ctx_matched, r)
    /\ rule_hits' = Append(rule_hits, r)
    /\ UNCHANGED <<initialized, full_scan_override, total_count, completed_count, spc,
                   file, cb_set, emitted, scan_rc, monitorVars, engineVars, qVars, folderVars>>

\* rule_match_callback, CALLBACK_MSG_SCAN_FINISHED, with one detection per
\* matched rule instead of the aggregate
YaraFinishPerRule ==
    /\ spc = "yara"
    /\ IF ctx_matched = <<>>
       THEN UNCHANGED <<emitted, ctx_matched>>
       ELSE /\ emitted' = IF cb_set
                          THEN emitted \o [i \in 1..Len(ctx_matched) |->
                                              YaraResult(<<ctx_matched[i]>>)]
                          ELSE emitted
            /\ ctx_matched' = <<>>
    /\ scan_rc' = "ok"
    /\ spc' = "done"
    /\ UNCHANGED <<initialized, full_scan_override, total_count, completed_count,
                   file, cb_set, rule_hits, monitorVars, engineVars, qVars, folderVars>>

\* rule_match_callback, CALLBACK_MSG_SCAN_FINISHED, then the scan call returns
\* ERROR_SUCCESS
YaraFinish ==
    /\ spc = "yara"
    /\ IF ctx_matched = <<>>
       THEN UNCHANGED <<emitted, ctx_matched>>
       ELSE /\ emitted' = Deliver(emitted, YaraResult(ctx_matched), cb_set, FALSE)
            /\ ctx_matched' = <<>>
    /\ scan_rc' = "ok"
    /\ spc' = "done"
    /\ UNCHANGED <<initialized, full_scan_override, total_count, completed_count,
                   file, cb_set, rule_hits, monitorVars, engineVars, qVars, folderVars>>

\* the scan call returns an error code: no message has been delivered
YaraFail ==
    /\ spc = "yara"
    /\ ctx_matched = <<>>
    /\ scan_rc' = "fail"
    /\ emitted' = Deliver(emitted,
                          ErrorResult(IF file.size <= PARTIAL_FILE_MIN
                                      THEN "YARA full-file scan failed"
                                      ELSE "YARA partial scan failed"),
                          cb_set, FALSE)
    /\ spc' = "done"
    /\ UNCHANGED <<initialized, full_scan_override, total_count, completed_count,
                   file, cb_set, ctx_matched, rule_hits, monitorVars, engineVars, qVars, folderVars>>

\* scan_file returns (or unwinds) to its caller; the per-scan locals die
ScanReturn ==
    /\ spc \in {"done", "threw"}
    /\ ~in_folder
    /\ spc' = "idle"
    /\ file' = NoFile
    /\ cb_set' = FALSE
    /\ emitted' = <<>>
    /\ ctx_matched' = <<>>
    /\ rule_hits' = <<>>
    /\ scan_rc' = "none"
    /\ UNCHANGED <<initialized, full_scan_override, total_count, completed_count, monitorVars, engineVars, qVars, folderVars>>

\* set_full_scan(enabled), between scans
SetFullScan(enabled) ==
    /\ spc = "idle"
    /\ full_scan_override # enabled
    /\ full_scan_override' = enabled
    /\ UNCHANGED <<initialized, total_count, completed_count, spc, file, cb_set,
                   emitted, ctx_matched, rule_hits, scan_rc, monitorVars, engineVars, qVars, folderVars>>

\* a scanner, initialised or not, whose real-time monitor is either stopped or
\* running (callbacks enabled)
InitScan ==
    /\ initialized \in BOOLEAN
    /\ full_scan_override = FALSE
    /\ total_count = 0
    /\ completed_count = 0
    /\ spc = "idle"
    /\ file = NoFile
    /\ cb_set = FALSE
    /\ emitted = <<>>
    /\ ctx_matched = <<>>
    /\ rule_hits = <<>>
    /\ scan_rc = "none"
    /\ QuarantineIdle
    /\ FolderIdle
    /\ IF initialized THEN EngineReady ELSE EngineIdle
    /\ callbacks_enabled \in BOOLEAN
    /\ monitor_state = IF callbacks_enabled THEN "Running" ELSE "Stopped"
    /\ monitoring = callbacks_enabled
    /\ realtime_callback = IF callbacks_enabled THEN "t1" ELSE NoCallback
    /\ path_queue = <<>>
    /\ last_event_time = EmptyMap
    /\ monitor_thread = callbacks_enabled
    /\ monitor_worker_thread = callbacks_enabled
    /\ pc = [t \in Callers |-> "idle"]
    /\ worker_pc = IF callbacks_enabled THEN "w_wait" ELSE "w_none"
    /\ worker_path = ""
    /\ worker_cb = NoCallback
    /\ watcher_pc = IF callbacks_enabled THEN "v_wait" ELSE "v_none"
    /\ now = 0
    /\ evt_after = {}

NextScan ==
    \/ ScanFile
    \/ ScanGate
    \/ ScanHash
    \/ \E ok \in BOOLEAN : ScanReadSegments(ok)
    \/ \E r \in Rules : YaraMatch(r)
    \/ YaraFinish
    \/ YaraFail
    \/ ScanReturn
    \/ \E b \in BOOLEAN : SetFullScan(b)

SpecScan == InitScan /\ [][NextScan]_vars

\* ========================================================================
\* Folder scan: scan_folder -> scan_file_internal, throttle_after_work
\* ========================================================================
MaxFolderFiles == 2

\* work durations in ms that steady_clock can measure around one file
WorkMs == {1, 2, 150, 600}

\* arguments of set_throttle_duty (percent) and of set_throttle_max_sleep_ms
DutyInputs == {25, 100}
MaxSleepInputs == {-1, 100}

\* files met by the directory walk: digests clean, in the signature store or
\* in the whitelist
FolderFiles ==
    [excluded : BOOLEAN, exists : BOOLEAN, size : Sizes, trusted : BOOLEAN,
     md5 : {"md5_clean"}, sha1 : {"sha1_clean"},
     sha256 : {"sha256_clean", "sha256_bad", "sha256_wl"}]

Min(a, b) == IF a < b THEN a ELSE b

\* throttle_after_work with the duty cycle in percent: the sleep in ms, the
\* double S truncated by static_cast<int>
throttle_after_work(work_dur, duty_cycle, max_sleep_ms, min_work_ms_to_throttle) ==
    IF work_dur < min_work_ms_to_throttle THEN 0
    ELSE IF duty_cycle <= 0 \/ duty_cycle >= 100 THEN 0
    ELSE Min((work_dur * (100 - duty_cycle)) \div duty_cycle, max_sleep_ms)

\* the throttle call of scan_folder: literal arguments 0.5, 500 and 2
FolderThrottle(w) == throttle_after_work(w, 50, 500, 2)

\* set_throttle_duty(duty), between scans
SetThrottleDuty(duty) ==
    /\ spc = "idle"
    /\ throttle_duty_cycle' = IF duty <= 0 \/ duty >= 100 THEN 0 ELSE duty
    /\ UNCHANGED <<throttle_max_sleep_ms, in_folder, folder_left, visit_base, last_throttle,
                   percent, scan_path, scanVars, monitorVars, engineVars, qVars>>

\* set_throttle_max_sleep_ms(max_sleep_ms), between scans
SetThrottleMaxSleep(max_sleep_ms) ==
    /\ spc = "idle"
    /\ throttle_max_sleep_ms' = IF max_sleep_ms < 0 THEN 0 ELSE max_sleep_ms
    /\ UNCHANGED <<throttle_duty_cycle, in_folder, folder_left, visit_base, last_throttle,
                   percent, scan_path, scanVars, monitorVars, engineVars, qVars>>

\* scan_folder(scan_path, callback) up to the second directory walk: the first
\* walk counts the regular files into total_count (0 when it throws); the
\* directory may change before the second walk, which meets `visits` files
ScanFolder ==
    /\ spc = "idle"
    /\ initialized
    /\ \E cbs \in BOOLEAN, counted \in 0..MaxFolderFiles, visits \in 0..MaxFolderFiles :
          /\ cb_set' = cbs
          /\ total_count' = counted
          /\ folder_left' = visits
    /\ completed_count' = 0
    /\ in_folder' = TRUE
    /\ spc' = "folder_loop"
    /\ emitted' = <<>>
    /\ visit_base' = 0
    /\ last_throttle' = NoThrottle
    /\ UNCHANGED <<initialized, full_scan_override, file, ctx_matched, scan_rc, rule_hits,
                   throttle_duty_cycle, throttle_max_sleep_ms, percent, scan_path, monitorVars, engineVars, qVars>>

\* the loop of scan_folder meets a regular file and calls scan_file_internal
FolderNext ==
    /\ spc = "folder_loop"
    /\ folder_left > 0
    /\ \E f \in FolderFiles : file' = f
    /\ spc' = "gate"
    /\ visit_base' = completed_count
    /\ last_throttle' = NoThrottle
    /\ UNCHANGED <<initialized, full_scan_override, total_count, completed_count, cb_set,
                   emitted, ctx_matched, scan_rc, rule_hits, throttle_duty_cycle,
                   throttle_max_sleep_ms, in_folder, folder_left, percent, scan_path, monitorVars, engineVars, qVars>>

\* scan_file_internal has returned into the loop of scan_folder: the counter is
\* incremented and the throttle sleeps; an exception out of scan_file_internal
\* skips both (catch (...) around the loop body)
FolderAfterFile ==
    /\ in_folder
    /\ spc \in {"done", "threw"}
    /\ IF spc = "done"
       THEN /\ completed_count' = completed_count + 1
            /\ \E w \in WorkMs :
                  last_throttle' = [ran |-> TRUE, work |-> w, sleep |-> FolderThrottle(w)]
       ELSE /\ last_throttle' = NoThrottle
            /\ UNCHANGED completed_count
    /\ folder_left' = folder_left - 1
    /\ spc' = "folder_loop"
    /\ file' = NoFile
    /\ emitted' = <<>>
    /\ ctx_matched' = <<>>
    /\ rule_hits' = <<>>
    /\ scan_rc' = "none"
    /\ UNCHANGED <<initialized, full_scan_override, total_count, cb_set,
                   throttle_duty_cycle, throttle_max_sleep_ms, in_folder, visit_base,
                   percent, scan_path, monitorVars, engineVars, qVars>>

\* the second walk is over: scan_folder returns
FolderDone ==
    /\ spc = "folder_loop"
    /\ folder_left = 0
    /\ spc' = "idle"
    /\ in_folder' = FALSE
    /\ cb_set' = FALSE
    /\ visit_base' = 0
    /\ last_throttle' = NoThrottle
    /\ UNCHANGED <<initialized, full_scan_override, total_count, completed_count, file,
                   emitted, ctx_matched, scan_rc, rule_hits, throttle_duty_cycle,
                   throttle_max_sleep_ms, folder_left, percent, scan_path, monitorVars, engineVars, qVars>>

\* an initialised scanner with the default throttle settings
InitFolder ==
    /\ InitScan
    /\ initialized

NextFolder ==
    \/ \E d \in DutyInputs : SetThrottleDuty(d)
    \/ \E m \in MaxSleepInputs : SetThrottleMaxSleep(m)
    \/ ScanFolder
    \/ FolderNext
    \/ ScanGate
    \/ ScanHash
    \/ \E ok \in BOOLEAN : ScanReadSegments(ok)
    \/ \E r \in Rules : YaraMatch(r)
    \/ YaraFinish
    \/ YaraFail
    \/ FolderAfterFile
    \/ FolderDone

SpecFolder == InitFolder /\ [][NextFolder]_vars

\* ========================================================================
\* Progress accessor: get_progress_percent over the two counters
\* ========================================================================
MaxTotal == 3
MaxCompleted == 120

\* get_progress_percent without the cap at 100
get_progress_percentNoClamp(t, c) ==
    IF t = 0
    THEN (IF c = 0 THEN 0 ELSE Min(99, c))
    ELSE (c * 100) \div t

\* get_progress_percent on total_count = t and completed_count = c
get_progress_percent(t, c) ==
    IF t = 0
    THEN (IF c = 0 THEN 0 ELSE Min(99, c))
    ELSE LET pct == (c * 100) \div t
         IN  IF pct > 100 THEN 100 ELSE pct

\* a UI poll: get_progress_percent()
GetProgressPercent ==
    /\ percent' = get_progress_percent(total_count, completed_count)
    /\ UNCHANGED <<throttle_duty_cycle, throttle_max_sleep_ms, in_folder, folder_left,
                   visit_base, last_throttle, scan_path, scanVars, monitorVars, engineVars, qVars>>

\* the counters as scans leave them: scan_folder stores any total, and
\* completed_count grows by one or two per visited file and by one per file
\* the real-time worker skips, so it can be below, at or above the total
InitProgress ==
    /\ total_count \in 0..MaxTotal
    /\ completed_count \in 0..MaxCompleted
    /\ initialized = TRUE
    /\ full_scan_override = FALSE
    /\ spc = "idle"
    /\ file = NoFile
    /\ cb_set = FALSE
    /\ emitted = <<>>
    /\ ctx_matched = <<>>
    /\ rule_hits = <<>>
    /\ scan_rc = "none"
    /\ FolderIdle
    /\ QuarantineIdle
    /\ MonitorIdle
    /\ EngineReady

NextProgress == GetProgressPercent

SpecProgress == InitProgress /\ [][NextProgress]_vars

\* ========================================================================
\* Path exclusion of scan_file_internal, on paths as sequences of character codes
\* ========================================================================
\* ::tolower on one char: 'A'..'Z' become 'a'..'z'
tolower(c) == IF c >= 65 /\ c <= 90 THEN c + 32 ELSE c

toupper(c) == IF c >= 97 /\ c <= 122 THEN c - 32 ELSE c

\* std::transform(path_str.begin(), path_str.end(), path_str.begin(), ::tolower)
LowerCased(str) == [i \in 1..Len(str) |-> tolower(str[i])]

UpperCased(str) == [i \in 1..Len(str) |-> toupper(str[i])]

\* hay.find(needle) != std::string::npos
Found(hay, needle) ==
    \E i \in 0..(Len(hay) - Len(needle)) : SubSeq(hay, i + 1, i + Len(needle)) = needle

\* the static vector of scan_file_internal, each keyword as written in the source
excluded_keywords ==
    <<
        \* c:\programdata\pbl4_av_data
        <<99, 58, 92, 112, 114, 111, 103, 114, 97, 109, 100, 97, 116, 97, 92, 112, 98, 108, 52, 95, 97, 118, 95, 100, 97, 116, 97>>,
        \* \device\
        <<92, 100, 101, 118, 105, 99, 101, 92>>,
        \* \windows\system32
        <<92, 119, 105, 110, 100, 111, 119, 115, 92, 115, 121, 115, 116, 101, 109, 51, 50>>,
        \* \windows\winsxs
        <<92, 119, 105, 110, 100, 111, 119, 115, 92, 119, 105, 110, 115, 120, 115>>,
        \* \$recycle.bin
        <<92, 36, 114, 101, 99, 121, 99, 108, 101, 46, 98, 105, 110>>,
        \* system volume information
        <<115, 121, 115, 116, 101, 109, 32, 118, 111, 108, 117, 109, 101, 32, 105, 110, 102, 111, 114, 109, 97, 116, 105, 111, 110>>,
        \* \appdata\local\temp
        <<92, 97, 112, 112, 100, 97, 116, 97, 92, 108, 111, 99, 97, 108, 92, 116, 101, 109, 112>>,
        \* node_modules
        <<110, 111, 100, 101, 95, 109, 111, 100, 117, 108, 101, 115>>,
        \* .git
        <<46, 103, 105, 116>>,
        \* all_rules.yarc
        <<97, 108, 108, 95, 114, 117, 108, 101, 115, 46, 121, 97, 114, 99>>,
        \* full_hash.db
        <<102, 117, 108, 108, 95, 104, 97, 115, 104, 46, 100, 98>>,
        \* PBL4_Client.exe
        <<80, 66, 76, 52, 95, 67, 108, 105, 101, 110, 116, 46, 101, 120, 101>>
    >>

\* the exclusion loop: the lowercased path is searched for each keyword
IsExcluded(file_path) ==
    \E k \in 1..Len(excluded_keywords) :
       Found(LowerCased(file_path), excluded_keywords[k])

\* "d:\" and "\a", put around a keyword to make a path
PathPrefixes == {<<>>, <<100, 58, 92>>}
PathSuffixes == {<<>>, <<92, 97>>}

\* paths given to the scanner: every keyword as written, in lower case and in
\* upper case, bare or inside a longer path, and a path free of keywords
PathInputs ==
    {pre \o kw \o suf :
        pre \in PathPrefixes, suf \in PathSuffixes,
        kw \in UNION {{excluded_keywords[k], LowerCased(excluded_keywords[k]),
                       UpperCased(excluded_keywords[k])} : k \in 1..Len(excluded_keywords)}}
    \cup {<<100, 58, 92, 97, 46, 116, 120, 116>>}

\* scan_file on a path: counters reset, scan_file_internal entered; the file is
\* an existing small file with clean digests, excluded or not by its path
ScanPath ==
    /\ spc = "idle"
    /\ initialized
    /\ total_count' = 1
    /\ completed_count' = 0
    /\ file' = [excluded |-> IsExcluded(scan_path), exists |-> TRUE,
                size |-> PARTIAL_FILE_MIN, trusted |-> FALSE, md5 |-> "md5_clean",
                sha1 |-> "sha1_clean", sha256 |-> "sha256_clean"]
    /\ cb_set' = TRUE
    /\ emitted' = <<>>
    /\ spc' = "gate"
    /\ UNCHANGED <<initialized, full_scan_override, ctx_matched, rule_hits, scan_rc,
                   monitorVars, engineVars, qVars, folderVars>>

InitPath ==
    /\ scan_path \in PathInputs
    /\ throttle_duty_cycle = 50
    /\ throttle_max_sleep_ms = 500
    /\ in_folder = FALSE
    /\ folder_left = 0
    /\ visit_base = 0
    /\ last_throttle = NoThrottle
    /\ percent = 0
    /\ ScanIdle
    /\ QuarantineIdle
    /\ MonitorIdle
    /\ EngineReady

NextPath ==
    \/ ScanPath
    \/ ScanGate
    \/ ScanHash
    \/ YaraFinish

SpecPath == InitPath /\ [][NextPath]_vars

\* ========================================================================
\* QuarantineManager: xor_transform_file, quarantine, restore, whitelist
\* ========================================================================
MaxLen == 9
BufSize == 4
FolderLimit == 9
StoredNames == 1..2

OrigPaths == {"F1", "F2"}
\* file contents: every length up to n, bytes spread over 0..255 from a seed
Seeds == {77, 255}
Contents(n) == {[i \in 1..k |-> (s + 67 * i) % 256] : k \in 0..n, s \in Seeds}

DEFAULT_XOR_KEY == <<170, 85, 195, 126, 154, 31, 182, 77>>

Bit(b, k) == (b \div (2 ^ k)) % 2

XorBit(a, b, k) == ((Bit(a, k) + Bit(b, k)) % 2) * (2 ^ k)

\* uint8_t xb = b ^ key[kpos]
XorByte(a, b) ==
    XorBit(a, b, 0) + XorBit(a, b, 1) + XorBit(a, b, 2) + XorBit(a, b, 3)
      + XorBit(a, b, 4) + XorBit(a, b, 5) + XorBit(a, b, 6) + XorBit(a, b, 7)

\* the key position after a chunk of r bytes, were it reset for every chunk
NextKposReset(kpos, r) == 0

\* the key position after a chunk of r bytes: kpos lives outside the read loop
NextKpos(kpos, r) == (kpos + r) % Len(DEFAULT_XOR_KEY)

\* the for-loop over one buffer
RECURSIVE XorBytes(_, _)
XorBytes(data, kpos) ==
    IF data = <<>> THEN <<>>
    ELSE <<XorByte(Head(data), DEFAULT_XOR_KEY[kpos + 1])>>
           \o XorBytes(Tail(data), (kpos + 1) % Len(DEFAULT_XOR_KEY))

\* the while-loop of xor_transform_file: read up to BufSize bytes, transform, write
RECURSIVE XorStream(_, _)
XorStream(data, kpos) ==
    IF data = <<>> THEN <<>>
    ELSE LET r == IF Len(data) < BufSize THEN Len(data) ELSE BufSize IN
         XorBytes(SubSeq(data, 1, r), kpos)
           \o XorStream(SubSeq(data, r + 1, Len(data)), NextKpos(kpos, r))

xor_transform_file(data) == XorStream(data, 0)

\* compute_hash(path, "sha256"): a collision-free stand-in for the digest
Sha256(data) == <<"sha256", data>>
NoHash == <<"", <<>>>>

RemoveKey(f, k) == [x \in DOMAIN f \ {k} |-> f[x]]
Put(f, k, v) == [x \in DOMAIN f \cup {k} |-> IF x = k THEN v ELSE f[x]]

\* get_total_quarantine_bytes, no quarantine_total_size in db_info: the sizes of
\* the files in the quarantine folder
RECURSIVE FolderBytes(_, _)
FolderBytes(store, n) ==
    IF n = 0 THEN 0
    ELSE (IF n \in DOMAIN store THEN Len(store[n]) ELSE 0) + FolderBytes(store, n - 1)

RECURSIVE SumSizes(_, _)
SumSizes(recs, k) == IF k = 0 THEN 0 ELSE recs[k].stored_size + SumSizes(recs, k - 1)

\* prune_quarantine_if_needed: how many of the oldest records are selected so
\* that their stored_size reaches needed; 0 when all of them do not suffice
PruneCount(recs, needed) ==
    IF \E k \in 1..Len(recs) : SumSizes(recs, k) >= needed
    THEN CHOOSE k \in 1..Len(recs) :
            /\ SumSizes(recs, k) >= needed
            /\ \A j \in 1..(k - 1) : SumSizes(recs, j) < needed
    ELSE 0

\* remove_quarantine_record_by_id over the selected records: the stored files
\* left in the folder, fs::remove having thrown for the rows at the positions
\* in stuck (the function goes on to the DELETE of the row)
PruneStore(store, recs, k, stuck) ==
    [n \in DOMAIN store \ {recs[i].stored_filename : i \in (1..k) \ stuck} |-> store[n]]

\* the rows left by the removal loop over the k selected records, the DELETE
\* having failed for the rows at the positions in failed
PruneRecords(recs, k, failed) ==
    LET idx == SelectSeq([i \in 1..Len(recs) |-> i], LAMBDA i : i > k \/ i \in failed)
    IN  [j \in 1..Len(idx) |-> recs[idx[j]]]

NoPrune == [ran |-> FALSE, ok |-> FALSE, needed |-> 0, pre |-> <<>>, post |-> <<>>]

QResult(op, status, stored, path, whitelisted) ==
    [op |-> op, status |-> status, stored |-> stored, path |-> path,
     whitelisted |-> whitelisted]

\* a variant of quarantine's branch order that makes room in the folder before
\* it looks at the free space of the volume
QuarantineOutcomePruneFirst(exists, low, over, k, xor_ok, insert_ok, rm_ok) ==
    IF ~exists THEN "notfound"
    ELSE IF over /\ k = 0 THEN "noroom"
    ELSE IF over /\ xor_ok THEN "pruned"
    ELSE IF low THEN (IF rm_ok THEN "emergency" ELSE "emergfail")
    ELSE IF ~xor_ok THEN "xorfail"
    ELSE IF insert_ok THEN "stored"
    ELSE "insertfail"

\* the branch quarantine takes: file not found, emergency delete (fs::remove
\* may throw), pruning without enough reclaimable bytes, a failed transform,
\* the prune-then-quarantine branch (which ignores the INSERT's result) and the
\* normal branch with or without a successful INSERT
QuarantineOutcome(exists, low, over, k, xor_ok, insert_ok, rm_ok) ==
    IF ~exists THEN "notfound"
    ELSE IF low THEN (IF rm_ok THEN "emergency" ELSE "emergfail")
    ELSE IF over /\ k = 0 THEN "noroom"
    ELSE IF ~xor_ok THEN "xorfail"
    ELSE IF over THEN "pruned"
    ELSE IF insert_ok THEN "stored"
    ELSE "insertfail"

\* quarantine(file_path); the inputs besides the path are what the environment
\* does: whether the transform, the hash of the stored file, the INSERT of the
\* record and the removal of the original succeed, and for which of the records
\* selected by the pruning the DELETE fails and for which the removal of the
\* stored file throws, and whether the free-space query succeeds
\* (get_free_space_bytes returns 0 when fs::space throws, and 0 is below any
\* positive quarantine_safe_free_bytes)
Quarantine(p) ==
    /\ next_stored \in StoredNames
    /\ LET exists == p \in DOMAIN fs_files
           C == IF exists THEN fs_files[p] ELSE <<>>
           total == FolderBytes(store_files, Cardinality(StoredNames))
           over == total + Len(C) > FolderLimit
           needed == (total + Len(C)) - FolderLimit
           k == IF over THEN PruneCount(quarantine_files, needed) ELSE 0
           Steps == IF exists THEN BOOLEAN ELSE {TRUE}
       IN
       \E xor_ok, hash_ok, insert_ok, rm_ok, gap_ok \in Steps, failed \in SUBSET (1..k),
          stuck \in SUBSET {i \in 1..k : quarantine_files[i].stored_filename \in DOMAIN store_files} :
         LET dest == xor_transform_file(C)
             rec == [id |-> next_stored, original_path |-> p,
                     stored_filename |-> next_stored, stored_size |-> Len(dest),
                     original_hash |-> IF hash_ok THEN Sha256(dest) ELSE NoHash,
                     restored |-> FALSE]
             outcome == QuarantineOutcome(exists, free_low \/ ~gap_ok, over, k, xor_ok,
                                          insert_ok, rm_ok)
             prune == outcome \in {"noroom", "xorfail", "pruned"} /\ over
             recs1 == IF prune /\ k > 0 THEN PruneRecords(quarantine_files, k, failed)
                      ELSE quarantine_files
             store1 == IF prune /\ k > 0 THEN PruneStore(store_files, quarantine_files, k, stuck)
                       ELSE store_files
             status == CASE outcome = "emergency" -> "EMERGENCY_DELETED"
                         [] outcome = "pruned" -> "PRUNED_AND_QUARANTINED"
                         [] outcome = "stored" -> "QUARANTINED"
                         [] OTHER -> "ERROR"
         IN
         /\ fs_files' = IF rm_ok /\ outcome \in {"emergency", "pruned", "stored", "insertfail"}
                        THEN RemoveKey(fs_files, p) ELSE fs_files
         /\ store_files' = CASE outcome = "xorfail" -> store1
                             [] outcome = "pruned" -> Put(store1, next_stored, dest)
                             [] outcome = "stored" -> Put(store_files, next_stored, dest)
                             [] OTHER -> store_files
         /\ quarantine_files' =
               CASE outcome = "xorfail" -> recs1
                 [] outcome = "pruned" -> IF insert_ok THEN Append(recs1, rec) ELSE recs1
                 [] outcome = "stored" -> Append(quarantine_files, rec)
                 [] OTHER -> quarantine_files
         /\ next_stored' = IF outcome \in {"xorfail", "pruned", "stored", "insertfail"}
                           THEN next_stored + 1 ELSE next_stored
         /\ origin' = IF outcome \in {"pruned", "stored"}
                      THEN Put(origin, next_stored, [path |-> p, content |-> C])
                      ELSE origin
         /\ prune_log' = IF prune
                         THEN [ran |-> TRUE, ok |-> k > 0, needed |-> needed,
                               pre |-> quarantine_files, post |-> recs1]
                         ELSE NoPrune
         /\ q_result' = QResult("quarantine", status,
                                IF outcome \in {"pruned", "stored"} THEN next_stored ELSE 0, p,
                                FALSE)
    /\ q_seq' = 1 - q_seq
    /\ UNCHANGED <<whitelist_db, free_low, monitorVars, engineVars, scanVars, folderVars>>

\* index of the record restore's SELECT ... LIMIT 1 returns, 0 if none
FindRecord(recs, n) ==
    IF \E i \in 1..Len(recs) : recs[i].stored_filename = n
    THEN CHOOSE i \in 1..Len(recs) :
            /\ recs[i].stored_filename = n
            /\ \A j \in 1..(i - 1) : recs[j].stored_filename # n
    ELSE 0

\* restore(stored_name); environment inputs: whether the transform, the hash of
\* the restored file and the whitelist upsert succeed
Restore(n) ==
    /\ LET i == FindRecord(quarantine_files, n)
           Steps == IF i # 0 /\ n \in DOMAIN store_files THEN BOOLEAN ELSE {TRUE}
       IN
       \E xor_ok, hash_ok, wl_ok \in Steps :
         LET outcome == IF i = 0 THEN "notfound"
                        ELSE IF n \notin DOMAIN store_files THEN "missing"
                        ELSE IF ~xor_ok THEN "xorfail"
                        ELSE "restored"
             dest == IF outcome = "restored" THEN xor_transform_file(store_files[n]) ELSE <<>>
             path == IF i = 0 THEN "" ELSE quarantine_files[i].original_path
         IN
         /\ fs_files' = IF outcome = "restored" THEN Put(fs_files, path, dest) ELSE fs_files
         /\ whitelist_db' = IF outcome = "restored" /\ hash_ok /\ wl_ok
                            THEN whitelist_db \cup {<<Sha256(dest), "sha256">>}
                            ELSE whitelist_db
         /\ quarantine_files' = IF outcome = "restored"
                                THEN [quarantine_files EXCEPT ![i].restored = TRUE]
                                ELSE quarantine_files
         /\ store_files' = IF outcome = "restored" THEN RemoveKey(store_files, n)
                           ELSE store_files
         /\ q_result' = QResult("restore",
                                IF outcome = "restored" THEN "RESTORED" ELSE "ERROR",
                                n, path, outcome = "restored" /\ hash_ok /\ wl_ok)
    /\ q_seq' = 1 - q_seq
    /\ prune_log' = NoPrune
    /\ UNCHANGED <<next_stored, free_low, origin, monitorVars, engineVars, scanVars, folderVars>>

\* the free space of the volume crosses the safe threshold
FreeSpaceChange ==
    /\ free_low' = ~free_low
    /\ UNCHANGED <<fs_files, store_files, quarantine_files, whitelist_db, next_stored,
                   q_seq, prune_log, q_result, origin, monitorVars, engineVars, scanVars, folderVars>>

\* two files on disk, an empty quarantine folder and an empty database
InitQ ==
    /\ \E c1 \in {c \in Contents(MaxLen) : Len(c) \in {0, BufSize + 1, MaxLen}},
          c2 \in Contents(1) :
          fs_files = [p \in OrigPaths |-> IF p = "F1" THEN c1 ELSE c2]
    /\ store_files = EmptyMap
    /\ quarantine_files = <<>>
    /\ whitelist_db = {}
    /\ next_stored = 1
    /\ free_low \in BOOLEAN
    /\ q_seq = 0
    /\ prune_log = NoPrune
    /\ origin = EmptyMap
    /\ q_result = QResult("none", "", 0, "", FALSE)
    /\ ScanIdle
    /\ FolderIdle
    /\ MonitorIdle
    /\ EngineReady

NextQ ==
    \/ \E p \in OrigPaths : Quarantine(p)
    \/ \E n \in StoredNames : Restore(n)
    \/ FreeSpaceChange

SpecQ == InitQ /\ [][NextQ]_vars

\* ========================================================================
\* YaraScanner engine resources: init / shutdown / destructor  -- SpecEngine
\* ========================================================================
MaxInits == 2        \* init calls made on one object
MaxFinalize == 4     \* yr_finalize calls followed

\* the step of init that fails ("none": init succeeds)
InitFails == {"none", "yr", "open", "md5", "sha1", "sha256", "whitelist", "rules"}

\* sqlite3_close(c): a connection with unfinalized statements stays open (SQLITE_BUSY)
sqlite3_close(conns, live, c) ==
    IF \E s \in StmtNames : <<s, c>> \in live THEN conns ELSE conns \ {c}

\* the statement members after prepare_db_statements on connection c;
\* a failing sqlite3_prepare_v2 stores nullptr in its own member
prepare_db_statements(old, fail, c) ==
    CASE fail = "md5"       -> [old EXCEPT !["md5"] = 0]
      [] fail = "sha1"      -> [old EXCEPT !["md5"] = 0, !["sha1"] = 0]
      [] fail = "sha256"    -> [old EXCEPT !["md5"] = 0, !["sha1"] = 0, !["sha256"] = 0]
      [] fail = "whitelist" -> [s \in StmtNames |-> IF s = "whitelist" THEN 0 ELSE c]
      [] OTHER              -> [s \in StmtNames |-> c]

\* finalize_db_statements: every non-null member is finalized
finalize_db_statements(ptrs, live) ==
    live \ {<<s, ptrs[s]>> : s \in {x \in StmtNames : ptrs[x] # 0}}

\* results init delivers to status_callback, by severity
StatusLog(fail, sink) ==
    IF ~sink THEN <<>>
    ELSE CASE fail = "none"  -> <<"NOTICE", "NOTICE", "NOTICE", "NOTICE">>
           [] fail = "rules" -> <<"NOTICE", "NOTICE", "ERROR">>
           [] OTHER          -> <<"NOTICE", "ERROR">>

\* bool init(rules_path, db_path, status_callback); c is the connection sqlite3_open makes
init(fail, sink) ==
    LET c == n_init + 1
        opened == fail \notin {"yr", "open"}
        ptrs == IF opened THEN prepare_db_statements(stmts, fail, c) ELSE stmts
        live1 == IF opened THEN live_stmts \cup {<<s, c>> : s \in {x \in StmtNames : ptrs[x] = c}} ELSE live_stmts
        live2 == IF fail = "rules" THEN finalize_db_statements(ptrs, live1) ELSE live1
    IN  /\ alive
        /\ n_init < MaxInits
        /\ yr_finals < MaxFinalize
        /\ n_init' = c
        /\ status_log' = StatusLog(fail, sink)
        /\ init_ret' = [called |-> TRUE, ret |-> fail = "none", sink |-> sink, fail |-> fail]
        /\ yr_inits' = IF fail = "yr" THEN yr_inits ELSE yr_inits + 1
        /\ yr_finals' = IF fail \in {"yr", "none"} THEN yr_finals ELSE yr_finals + 1
        /\ db' = IF fail = "yr" THEN db ELSE IF fail = "none" THEN c ELSE 0
        /\ stmts' = IF fail = "rules" THEN [s \in StmtNames |-> 0] ELSE ptrs
        /\ live_stmts' = live2
        /\ open_conns' = IF ~opened THEN open_conns
                         ELSE IF fail = "none" THEN open_conns \cup {c}
                         ELSE sqlite3_close(open_conns \cup {c}, live2, c)
        /\ yr_rules' = IF fail = "none" THEN c ELSE yr_rules
        /\ live_rules' = IF fail = "none" THEN live_rules \cup {c} ELSE live_rules
        /\ initialized' = IF fail = "none" THEN TRUE ELSE initialized
        /\ UNCHANGED <<alive, sm_pc, scan_mutex, sm_use, stab, full_scan_override, total_count, completed_count, spc, file,
                       cb_set, emitted, ctx_matched, scan_rc, rule_hits, monitorVars, qVars,
                       folderVars>>

\* the body of shutdown() with the monitor not Running: stop_realtime clears
\* monitoring and returns; then rules, library, statements and database
ShutdownBody ==
    LET live1 == finalize_db_statements(stmts, live_stmts)
    IN  /\ alive
        /\ monitor_state # "Running"
        /\ yr_finals < MaxFinalize
        /\ monitoring' = FALSE
        /\ live_rules' = live_rules \ {yr_rules}
        /\ yr_rules' = 0
        /\ yr_finals' = yr_finals + 1
        /\ stmts' = [s \in StmtNames |-> 0]
        /\ live_stmts' = live1
        /\ open_conns' = IF db # 0 THEN sqlite3_close(open_conns, live1, db) ELSE open_conns
        /\ db' = 0
        /\ initialized' = FALSE
        /\ UNCHANGED <<yr_inits, n_init, status_log, init_ret, sm_pc, scan_mutex, sm_use, stab,
                       full_scan_override, total_count, completed_count, spc, file,
                       cb_set, emitted, ctx_matched, scan_rc, rule_hits,
                       monitor_state, callbacks_enabled, realtime_callback, path_queue,
                       last_event_time, monitor_thread, monitor_worker_thread, pc,
                       worker_pc, worker_path, worker_cb, watcher_pc, now, evt_after,
                       qVars, folderVars>>

shutdown ==
    /\ ShutdownBody
    /\ UNCHANGED alive

\* ~YaraScanner() { shutdown(); }
Destructor ==
    /\ ShutdownBody
    /\ alive' = FALSE

InitEngine ==
    /\ initialized = FALSE
    /\ full_scan_override = FALSE
    /\ total_count = 0
    /\ completed_count = 0
    /\ spc = "idle"
    /\ file = NoFile
    /\ cb_set = FALSE
    /\ emitted = <<>>
    /\ ctx_matched = <<>>
    /\ rule_hits = <<>>
    /\ scan_rc = "none"
    /\ MonitorIdle
    /\ QuarantineIdle
    /\ FolderIdle
    /\ EngineIdle

NextEngine ==
    \/ \E fail \in InitFails, sink \in BOOLEAN : init(fail, sink)
    \/ shutdown
    \/ Destructor

SpecEngine == InitEngine /\ [][NextEngine]_vars

\* ========================================================================
\* scan_mutex: concurrent scans and shutdown                   -- SpecMutex
\* ========================================================================
\* what a step of a scanning thread leaves alone
restSm == <<stab, db, stmts, yr_rules, open_conns, live_stmts, live_rules, yr_inits, yr_finals,
            n_init, status_log, init_ret, alive, monitorVars, scanVars, qVars, folderVars>>

\* scan_file: if (!initialized) return; the policy gates run before the lock
SmEnter(t) ==
    /\ sm_pc[t] = "idle"
    /\ initialized
    /\ sm_pc' = [sm_pc EXCEPT ![t] = "gate"]
    /\ sm_use' = [sm_use EXCEPT ![t] = NoUse]
    /\ UNCHANGED <<scan_mutex, restSm>>

\* variant: the lock is taken without waiting for its holder
SmLockNoWait(t) ==
    /\ sm_pc[t] = "gate"
    /\ scan_mutex' = t
    /\ sm_pc' = [sm_pc EXCEPT ![t] = "locked"]
    /\ sm_use' = [sm_use EXCEPT ![t] = NoUse]
    /\ UNCHANGED restSm

\* std::lock_guard<std::mutex> lock(scan_mutex): blocks while another thread holds it
SmLock(t) ==
    /\ sm_pc[t] = "gate"
    /\ scan_mutex = "none"
    /\ scan_mutex' = t
    /\ sm_pc' = [sm_pc EXCEPT ![t] = "locked"]
    /\ sm_use' = [sm_use EXCEPT ![t] = NoUse]
    /\ UNCHANGED restSm

\* check_hash_whitelist / check_hash_in_db on statement s: returns false at
\* once when db or the statement is null, else binds and steps the statement
SmLookup(t, s) ==
    /\ sm_pc[t] = "locked"
    /\ sm_pc' = [sm_pc EXCEPT ![t] = "lookup"]
    /\ sm_use' = [sm_use EXCEPT ![t] = IF db # 0 /\ stmts[s] # 0
                                       THEN [kind |-> s, id |-> stmts[s]] ELSE NoUse]
    /\ UNCHANGED <<scan_mutex, restSm>>

\* the lookups are over: a hit returns (the lock_guard unlocks), and so does
\* if (!rules) return; otherwise yr_rules_scan_file / yr_rules_scan_mem starts
SmYara(t, hit) ==
    /\ sm_pc[t] = "lookup"
    /\ IF hit \/ yr_rules = 0
       THEN /\ sm_pc' = [sm_pc EXCEPT ![t] = "idle"]
            /\ sm_use' = [sm_use EXCEPT ![t] = NoUse]
            /\ scan_mutex' = IF scan_mutex = t THEN "none" ELSE scan_mutex
       ELSE /\ sm_pc' = [sm_pc EXCEPT ![t] = "yara"]
            /\ sm_use' = [sm_use EXCEPT ![t] = [kind |-> "rules", id |-> yr_rules]]
            /\ UNCHANGED scan_mutex
    /\ UNCHANGED restSm

\* the content scan returns; scan_file_internal returns and the lock_guard unlocks
SmUnlock(t) ==
    /\ sm_pc[t] = "yara"
    /\ sm_pc' = [sm_pc EXCEPT ![t] = "idle"]
    /\ sm_use' = [sm_use EXCEPT ![t] = NoUse]
    /\ scan_mutex' = IF scan_mutex = t THEN "none" ELSE scan_mutex
    /\ UNCHANGED restSm

NextMutex ==
    \/ \E t \in ScanThreads : SmEnter(t)
    \/ \E t \in ScanThreads : SmLock(t)
    \/ \E t \in ScanThreads, s \in StmtNames : SmLookup(t, s)
    \/ \E t \in ScanThreads, hit \in BOOLEAN : SmYara(t, hit)
    \/ \E t \in ScanThreads : SmUnlock(t)
    \/ \E fail \in InitFails, sink \in BOOLEAN : init(fail, sink)
    \/ shutdown

SpecMutex == Init /\ [][NextMutex]_vars

\* ========================================================================
\* process_queued_path: file-stability check                   -- SpecStable
\* ========================================================================
MAX_STABLE_RETRIES == 5

\* what fs::file_size(path, ec) yields when the size cannot be read: a value
\* no file size equals (static_cast<uintmax_t>(-1))
UINT64_MAX == 0 - 1

restStable == <<db, stmts, yr_rules, open_conns, live_stmts, live_rules, yr_inits, yr_finals,
                n_init, status_log, init_ret, alive, sm_pc, scan_mutex, sm_use,
                monitorVars, scanVars, qVars, folderVars>>

\* process_queued_path(path) up to the loop: the callback is copied under
\* callback_mutex, an empty callback returns; a path that is not a regular
\* file returns
PqpBegin(has_cb, is_regular, sz) ==
    /\ stab.pc = "idle"
    /\ stab' = [stab EXCEPT !.cb = has_cb, !.regular = is_regular, !.size = sz,
                            !.always_regular = is_regular,
                            !.pc = IF has_cb /\ is_regular THEN "loop" ELSE "returned"]
    /\ UNCHANGED restStable

\* another process writes to the file, or removes it, while the check sleeps
StableFileChange(is_regular, sz) ==
    /\ stab.pc = "loop"
    /\ stab.regular
    /\ ~is_regular \/ sz # stab.size
    /\ stab' = [stab EXCEPT !.regular = is_regular, !.size = IF is_regular THEN sz ELSE 0,
                            !.always_regular = @ /\ is_regular]
    /\ UNCHANGED restStable

\* one iteration of the loop; when the loop is left by break or by i reaching
\* MAX_STABLE_RETRIES, scan_file_internal(path, guarded_cb) is called
PqpSample(read_ok) ==
    /\ stab.pc = "loop"
    /\ IF ~stab.regular
       THEN stab' = [stab EXCEPT !.pc = "returned"]
       ELSE LET sz == IF read_ok THEN stab.size ELSE UINT64_MAX
                now_stable == stab.i > 0 /\ sz # UINT64_MAX /\ sz = stab.last_size
                leave == now_stable \/ stab.i + 1 = MAX_STABLE_RETRIES
            IN  stab' = [stab EXCEPT !.samples = Append(@, sz),
                                     !.stable = now_stable,
                                     !.last_size = IF now_stable THEN @ ELSE sz,
                                     !.i = IF now_stable THEN @ ELSE @ + 1,
                                     !.scans = IF leave THEN @ + 1 ELSE @,
                                     !.pc = IF leave THEN "returned" ELSE "loop"]
    /\ UNCHANGED restStable

\* the file has a size of 0, 1 or 2 bytes while it is being written
NextStable ==
    \/ \E has_cb, is_regular \in BOOLEAN, sz \in 0..2 : PqpBegin(has_cb, is_regular, sz)
    \/ \E is_regular \in BOOLEAN, sz \in 0..2 : StableFileChange(is_regular, sz)
    \/ \E read_ok \in BOOLEAN : PqpSample(read_ok)

SpecStable == Init /\ [][NextStable]_vars

\* ========================================================================
\* Properties of the real-time monitor (checked under Spec)
\* ========================================================================
debounce_threshold == 800

Transitions ==
    { <<"Stopped", "Starting">>, <<"Starting", "Running">>, <<"Starting", "Stopped">>,
      <<"Running", "Stopping">>, <<"Stopping", "Stopped">> }

\* C1: under every interleaving of start_realtime and stop_realtime calls, spawn
\* failures included, monitor_state changes only along one of the five
\* transitions of the lifecycle.
C1_OnlyFiveTransitions ==
    [][monitor_state' # monitor_state
         => <<monitor_state, monitor_state'>> \in Transitions]_vars

\* a stop_realtime has gone through Running -> Stopping -> Stopped while the
\* other caller's start_realtime was running into the state check
C1_Witness ==
    \E t, u \in Callers :
        /\ pc[t] = "t_ret" /\ monitor_state = "Stopped" /\ ~monitor_thread
        /\ pc[u] = "s_ret_false_cas"

\* the step by which thread t enters start_realtime
StartCalled(t) == pc[t] = "idle" /\ pc'[t] \in {"s_install", "s_monitoring", "s_ret_false_cas"}

\* C2: a start_realtime call made while monitor_state is Starting, Running or
\* Stopping returns false and changes none of monitor_state, monitoring,
\* callbacks_enabled, realtime_callback, path_queue, last_event_time and the
\* two thread handles.
C2_RejectedStartFrame ==
    [][\A t \in Callers :
          (StartCalled(t) /\ monitor_state # "Stopped")
             => /\ pc'[t] = "s_ret_false_cas"
                /\ UNCHANGED <<monitor_state, monitoring, callbacks_enabled,
                               realtime_callback, path_queue, last_event_time,
                               monitor_thread, monitor_worker_thread>>]_vars

\* a start_realtime was rejected while the monitor runs with a queued path
C2_Witness ==
    \E t \in Callers :
        /\ pc[t] = "s_ret_false_cas"
        /\ monitor_state = "Running" /\ callbacks_enabled /\ realtime_callback # t
        /\ path_queue # <<>>

\* the step by which thread t's stop_realtime returns
StopReturns(t) == pc[t] # "t_ret" /\ pc'[t] = "t_ret"

\* C3: whenever a stop_realtime call returns, monitor_state = Stopped,
\* path_queue and last_event_time are empty and callbacks_enabled = false.
C3_StopPostcondition ==
    [][\A t \in Callers :
          StopReturns(t)
             => /\ monitor_state' = "Stopped"
                /\ path_queue' = <<>>
                /\ last_event_time' = EmptyMap
                /\ ~callbacks_enabled']_vars

Occurrences(q, p) == Cardinality({i \in 1..Len(q) : q[i] = p})

\* C4: in every reachable state each path occurs at most once in path_queue.
C4_QueueUnique == \A p \in Paths : Occurrences(path_queue, p) <= 1

\* the worker holds a popped path that has been enqueued again meanwhile, and
\* the other path is queued behind it
C4_Witness ==
    /\ worker_path = "pA"
    /\ path_queue = <<"pA", "pB">>

\* the step by which the worker starts a stability-check + scan pass for p
PassBegins(p) ==
    /\ worker_path = p
    /\ worker_pc \in {"w_snap", "d_snap"}
    /\ worker_pc' \in {"w_scan", "d_scan"}

\* C5: for events on one path p arriving within the debounce threshold, the
\* worker starts a pass for p only if an event for p has arrived since the
\* previous pass for p completed (so a burst yields one pass), and p is queued
\* at most once.
C5_OnePassPerBurst ==
    [][\A p \in Paths :
          (PassBegins(p) /\ now < debounce_threshold)
             => /\ p \in evt_after
                /\ Occurrences(path_queue, p) <= 1]_vars

\* ========================================================================
\* Properties of the scan pipeline (checked under SpecScan)
\* ========================================================================
\* the gates of the policy in their documented order; with the full-scan
\* override only the path exclusion (and the existence test) applies
GateOrder == <<"exclusion", "nonexistent", "oversized", "trusted", "whitelist">>

GateMatches(g) ==
    CASE g = "exclusion"   -> file.excluded
      [] g = "nonexistent" -> ~file.exists
      [] g = "oversized"   -> ~full_scan_override /\ file.size > MAX_FILE_SIZE_SKIP
      [] g = "trusted"     -> ~full_scan_override /\ file.trusted
      [] g = "whitelist"   -> /\ ~full_scan_override
                              /\ \/ <<file.sha256, "sha256">> \in WhitelistTable
                                 \/ <<file.sha1, "sha1">> \in WhitelistTable
                                 \/ <<file.md5, "md5">> \in WhitelistTable

FirstGate ==
    IF \E i \in 1..Len(GateOrder) : GateMatches(GateOrder[i])
    THEN GateOrder[CHOOSE i \in 1..Len(GateOrder) :
                      /\ GateMatches(GateOrder[i])
                      /\ \A j \in 1..(i - 1) : ~GateMatches(GateOrder[j])]
    ELSE "none"

SigPresent(hash_type) == DigestOf(file, hash_type) \in DOMAIN SigTable(hash_type)

FirstPresent ==
    IF SigPresent("SHA256") THEN "SHA256"
    ELSE IF SigPresent("SHA1") THEN "SHA1"
    ELSE IF SigPresent("MD5") THEN "MD5"
    ELSE "none"

Terminal(r) == r.isMalware \/ r.detection_source \in {"POLICY", "WHITELIST"}

CleanMiss ==
    /\ FirstGate = "none"
    /\ FirstPresent = "none"
    /\ rule_hits = <<>>
    /\ scan_rc \notin {"fail", "read_fail"}

\* C6: during and after every scan_file call the sink has received at most one
\* terminal result (is_malware, or detection_source POLICY or WHITELIST), a
\* detection is never accompanied by a second result, and a scan that ends as
\* a clean miss (no gate, no signature hit, no rule match, no failure) has
\* delivered nothing.
C6_SingleTerminalResult ==
    /\ Cardinality({i \in 1..Len(emitted) : Terminal(emitted[i])}) <= 1
    /\ (\E i \in 1..Len(emitted) : emitted[i].isMalware) => Len(emitted) = 1
    /\ (initialized /\ spc = "done" /\ CleanMiss) => emitted = <<>>

\* a medium file on which two rules matched has produced one detection
C6_Witness ==
    /\ spc = "done" /\ file.size = PARTIAL_FILE_MAX
    /\ Len(rule_hits) = 2
    /\ Len(emitted) = 1 /\ emitted[1].isMalware

\* which gate a delivered notice came from
GateOfResult(r) ==
    IF r.detection_source = "POLICY" /\ r.desc = "Skipped: file too large (>500MB)" THEN "oversized"
    ELSE IF r.detection_source = "POLICY" /\ r.desc = "Skipped: trusted publisher signature" THEN "trusted"
    ELSE IF r.detection_source = "WHITELIST" THEN "whitelist"
    ELSE "none"

C9_OneAggregatedDetection ==
    /\ (spc = "yara") => emitted = <<>>
    /\ (spc = "done" /\ scan_rc = "ok" /\ Len(rule_hits) >= 1 /\ cb_set)
          => /\ Len(emitted) = 1
             /\ emitted[1].isMalware
             /\ emitted[1].detection_source = "YARA"
             /\ emitted[1].matched_rules_count = Len(rule_hits)
             /\ emitted[1].matched_rules = rule_hits

\* three rules matched, not in alphabetical order, and one detection lists them
C9_Witness ==
    /\ spc = "done" /\ scan_rc = "ok"
    /\ rule_hits = <<"r2", "r3", "r1">>
    /\ Len(emitted) = 1 /\ emitted[1].matched_rules_count = 3
    /\ emitted[1].matched_rules = rule_hits

\* ========================================================================
\* Properties of the quarantine manager (checked under SpecQ)
\* ========================================================================
\* byte i of a file XORed with the key byte at position (i - 1) mod 8, counted
\* over the whole file
Obfuscated(content) ==
    [i \in 1..Len(content) |->
        XorByte(content[i], DEFAULT_XOR_KEY[((i - 1) % Len(DEFAULT_XOR_KEY)) + 1])]

Evicted(recs, kept) ==
    {i \in 1..Len(recs) : \A j \in 1..Len(kept) : kept[j].id # recs[i].id}

\* C11: after prune(needed) has reported success, the stored_size sum over the
\* remaining records is at most the sum before the prune minus needed, and
\* every evicted record is older than every remaining record (rows are numbered
\* in the order of their quarantined_at), also when the removal of a selected
\* record has failed.
C11_PruneMonotone ==
    (prune_log.ran /\ prune_log.ok)
       => /\ SumSizes(prune_log.post, Len(prune_log.post))
                <= SumSizes(prune_log.pre, Len(prune_log.pre)) - prune_log.needed
          /\ \A i \in Evicted(prune_log.pre, prune_log.post) :
                \A j \in 1..Len(prune_log.post) :
                   prune_log.pre[i].id < prune_log.post[j].id

\* a call of quarantine returns while the free space is below the safe threshold
EmergencyCall ==
    /\ q_seq' # q_seq
    /\ q_result'.op = "quarantine"
    /\ free_low

\* C12 as stated: every call of quarantine(F) made with free_bytes below
\* safe_free_bytes removes F, returns EMERGENCY_DELETED, writes no file to the
\* quarantine folder and inserts no row.
C12_EmergencyAlways ==
    [][EmergencyCall
          => /\ q_result'.path \notin DOMAIN fs_files'
             /\ q_result'.status = "EMERGENCY_DELETED"
             /\ store_files' = store_files
             /\ quarantine_files' = quarantine_files]_vars

\* C12: every call of quarantine(F) made on an existing file F with free_bytes
\* below safe_free_bytes writes no file to the quarantine folder and inserts no
\* row, and either removes F and returns EMERGENCY_DELETED or, the removal
\* having thrown, leaves F in place and returns ERROR.
C12_EmergencyDelete ==
    [][(EmergencyCall /\ q_result'.path \in DOMAIN fs_files)
          => /\ store_files' = store_files
             /\ quarantine_files' = quarantine_files
             /\ \/ /\ q_result'.path \notin DOMAIN fs_files'
                   /\ q_result'.status = "EMERGENCY_DELETED"
                \/ /\ fs_files' = fs_files
                   /\ q_result'.status = "ERROR"]_vars

\* an emergency deletion has happened while the quarantine folder held a file
\* and a row, both still there, and the new file would not have fitted
C12_Witness ==
    /\ free_low
    /\ q_result.op = "quarantine" /\ q_result.status = "EMERGENCY_DELETED"
    /\ q_result.path \notin DOMAIN fs_files
    /\ Len(quarantine_files) = 1
    /\ DOMAIN store_files = {quarantine_files[1].stored_filename}

\* C13: a QUARANTINED or PRUNED_AND_QUARANTINED status returned by quarantine
\* implies that a record of the stored file exists: a failed INSERT deletes
\* the stored file and returns ERROR on both branches.
C13_InsertFailureHandled ==
    (q_result.op = "quarantine"
        /\ q_result.status \in {"QUARANTINED", "PRUNED_AND_QUARANTINED"})
       => \E i \in 1..Len(quarantine_files) :
             quarantine_files[i].stored_filename = q_result.stored

\* C14: in scan_folder the sleep inserted after a file whose work took w ms is
\* min(w*(1-d)/d, M) for the duty cycle d and the cap M configured through
\* set_throttle_duty and set_throttle_max_sleep_ms, and zero when w < 2.
C14_ThrottleSleep ==
    (last_throttle.ran /\ throttle_duty_cycle > 0 /\ throttle_duty_cycle < 100)
       => last_throttle.sleep =
             IF last_throttle.work < 2 THEN 0
             ELSE Min((last_throttle.work * (100 - throttle_duty_cycle))
                         \div throttle_duty_cycle,
                      throttle_max_sleep_ms)

\* what the percentage is said to be, from the counters
ProgressClaimed(t, c) ==
    IF t > 0 THEN Min(100, (100 * c) \div t)
    ELSE IF c > 0 THEN Min(c, 99)
    ELSE 0

\* C15: get_progress_percent() returns floor(100*completed/total) clamped to
\* [0,100] when total > 0, min(completed, 99) when total = 0 and completed > 0,
\* and 0 otherwise; the value is within [0,100] also when completed exceeds
\* total.
C15_ProgressPercent ==
    [][/\ percent' = ProgressClaimed(total_count, completed_count)
       /\ percent' >= 0
       /\ percent' <= 100]_vars

\* polls have returned 100 with completed above total
C15_Witness ==
    /\ total_count > 0
    /\ completed_count > total_count
    /\ (100 * completed_count) \div total_count > 100
    /\ percent = 100

\* C16: the visit of one oversized file by scan_folder (full-scan override off,
\* a sink being passed) delivers exactly the one POLICY notice and increases
\* completed_count by exactly 1.
C16_OversizedVisit ==
    [][(/\ in_folder
        /\ spc = "done" /\ spc' = "folder_loop"
        /\ cb_set
        /\ PolicyGate(file, full_scan_override) = "oversized")
          => /\ emitted = <<Notice("POLICY", "Skipped: file too large (>500MB)")>>
             /\ completed_count' = visit_base + 1]_vars

\* C19: with full_scan_override set, a scan of an existing, not excluded file
\* ends without POLICY or WHITELIST notice, after the signature lookup and,
\* absent a signature hit, after a content scan, whatever the file's size.
C19_OverrideScansAll ==
    (initialized /\ ~in_folder /\ spc = "done" /\ full_scan_override
        /\ file.exists /\ ~file.excluded)
       => /\ \A i \in 1..Len(emitted) :
                emitted[i].detection_source \notin {"POLICY", "WHITELIST"}
          /\ SigHit(file) = 0 => scan_rc # "none"

\* C20: every result delivered to a scan sink has a non-empty severity, a
\* non-empty detection_source and a non-empty description.
C20_ResultFieldsSet ==
    \A i \in 1..Len(emitted) :
       /\ emitted[i].severity # ""
       /\ emitted[i].detection_source # ""
       /\ emitted[i].desc # ""

\* the path contains a keyword of the exclusion list in some letter case
ContainsKeyword(file_path) ==
    \E k \in 1..Len(excluded_keywords) :
       Found(LowerCased(file_path), LowerCased(excluded_keywords[k]))

\* C18: for every path that contains a keyword of the exclusion list in any
\* letter case, scan_file_internal invokes the sink zero times, performs no
\* hashing and no content scan, and increments completed_count by one.
C18_ExcludedSilently ==
    (ContainsKeyword(scan_path) /\ spc \notin {"idle", "gate"})
       => /\ spc = "done"
          /\ emitted = <<>>
          /\ scan_rc = "none"
          /\ completed_count = 1

\* a thread of the monitor calls the real-time sink
SinkCalled ==
    \/ worker_pc \in {"w_call", "d_call"} /\ worker_pc' \notin {"w_call", "d_call"}
    \/ watcher_pc = "p_call" /\ watcher_pc' # "p_call"

\* C17: while callbacks_enabled is false (stop_realtime has cleared it and no
\* later start_realtime has set it again), neither the worker thread nor the
\* watcher thread delivers a result of any kind to the real-time sink.
C17_NoDeliveryAfterStop ==
    [][SinkCalled => callbacks_enabled]_vars
\* ========================================================================
\* Properties of init / shutdown (checked under SpecEngine)
\* ========================================================================

\* the number of ERROR results in a status log
ErrorCount(log) == Cardinality({i \in 1..Len(log) : log[i] = "ERROR"})

\* C21: whenever init fails (library initialisation, database open, one of
\* the four statement preparations, rule-set load) it returns false having
\* delivered exactly one ERROR to the status sink, initialized is false, the
\* database handle is closed and null, the four statement handles are
\* finalized and null, the rule set is null and the library initialisation
\* has been undone.
C21_InitFailureReleasesAll ==
    [][(n_init' = n_init + 1 /\ ~init_ret'.ret /\ init_ret'.sink)
        => /\ ErrorCount(status_log') = 1
           /\ ~initialized'
           /\ db' = 0
           /\ n_init' \notin open_conns'
           /\ \A s \in StmtNames : stmts'[s] = 0 /\ <<s, n_init'>> \notin live_stmts'
           /\ yr_rules' = 0
           /\ yr_inits' - yr_finals' = yr_inits - yr_finals]_vars

\* C22: shutdown may be called any number of times: over every sequence of
\* init, shutdown and destructor calls a repeated shutdown, or one on an
\* engine never initialized, releases nothing again; the library has been
\* finalized at most as often as it was successfully initialized.
C22_FinalizeBalanced == yr_finals <= yr_inits

\* ========================================================================
\* Properties of the watcher and worker threads (Spec, SpecRt, SpecLive)
\* ========================================================================

\* C23: with the change-notification watcher and with the polling watcher
\* alike, scan_file_internal runs for a real-time event only on the worker
\* thread, on a path the worker took from path_queue; the watcher thread is
\* never inside scan_file_internal.
C23_OnlyWorkerScans ==
    /\ watcher_pc \notin {"p_scan", "p_call"}
    /\ worker_pc \in {"w_scan", "d_scan", "w_call", "d_call"} => worker_path # ""

\* a step of API caller t inside start_realtime or stop_realtime (the call
\* itself, StartCas or StopCas from idle, is the caller's choice)
CallerStep(t) ==
    \/ StartInstall(t) \/ StartMonitoring(t) \/ StartSpawnWorker(t) \/ StartSpawnWatcher(t)
    \/ StartFailJoin(t) \/ StartFailState(t) \/ StartRunning(t)
    \/ StopNotRunning(t) \/ StopMonitoring(t) \/ StopCallback(t)
    \/ StopJoinWatcher(t) \/ StopJoinWorker(t) \/ StopClear(t) \/ StopState(t)
    \/ Return(t)

\* a step of the watcher thread that is not the arrival of a change record
WatcherStep == WatcherCheck \/ WatcherIdle

\* a step of the worker thread; scans and callbacks terminate
WorkerStep ==
    \/ WorkerCheck \/ WorkerWait \/ WorkerDrain
    \/ (\E exists \in BOOLEAN : WorkerSnapshot(exists))
    \/ (\E res \in BOOLEAN : WorkerScan(res))
    \/ WorkerCall

LivePaths == {"pA"}

\* the monitor of Spec with the clock standing still and events on one path
NextLive ==
    \/ \E t \in Callers : StartCas(t) \/ StopCas(t)
    \/ \E t \in Callers : StartSpawnWorkerFail(t) \/ StartSpawnWatcherFail(t)
    \/ \E t \in Callers : CallerStep(t)
    \/ \E p \in LivePaths : WatcherEvent(p)
    \/ WatcherStep
    \/ WorkerStep

\* every thread that can take a step eventually takes one
SpecLive ==
    /\ Init /\ [][NextLive]_vars
    /\ \A t \in Callers : WF_vars(CallerStep(t))
    /\ WF_vars(WatcherStep)
    /\ WF_vars(WorkerStep)

\* ------------------------------------------------------------------------
\* The monitor driven through the Python binding              -- SpecGil
\* ------------------------------------------------------------------------
\* the binding's stop_realtime (and shutdown) keeps the host-runtime lock from
\* entry to return: py::gil_scoped_acquire around self.stop_realtime()
GilHeldByStop ==
    pc[RtCaller] \in {"t_notrunning", "t_monitoring", "t_callback", "t_join_watcher",
                      "t_join_worker", "t_clear", "t_state"}

\* cb(r) of a callback made by make_cpp_callback: safe_invoke_py_callback
\* takes the host-runtime lock first, and waits while another thread keeps it
PyWorkerCall ==
    /\ ~GilHeldByStop
    /\ WorkerCall

NextGil ==
    \/ StartCas(RtCaller) \/ StopCas(RtCaller)
    \/ StartSpawnWorkerFail(RtCaller) \/ StartSpawnWatcherFail(RtCaller)
    \/ CallerStep(RtCaller)
    \/ \E p \in Paths : WatcherEvent(p)
    \/ WatcherStep
    \/ WorkerCheck \/ WorkerWait \/ WorkerDrain
    \/ (\E exists \in BOOLEAN : WorkerSnapshot(exists))
    \/ (\E res \in BOOLEAN : WorkerScan(res))
    \/ PyWorkerCall

SpecGil == Init /\ [][NextGil]_vars

\* C25: stop_realtime called through the Python binding, with the worker past
\* the callbacks_enabled check and about to deliver a result to the Python
\* callback, does not deadlock: the caller never waits in the worker join,
\* keeping the host-runtime lock, for a worker that waits for that lock.
C25_NoGilDeadlock ==
    ~(/\ pc[RtCaller] = "t_join_worker"
      /\ monitor_worker_thread
      /\ GilHeldByStop
      /\ worker_pc \in {"w_call", "d_call"})

\* enqueue_path_for_scan has run: a path was appended or its event time refreshed
EnqueueStep ==
    \/ Len(path_queue') > Len(path_queue)
    \/ last_event_time' # last_event_time /\ last_event_time' # EmptyMap

\* C24: a stop_realtime call that wins the Running -> Stopping CAS eventually
\* stores Stopped; the watcher is joined before the worker, and nothing is
\* enqueued once the watcher has been joined.
C24_StopTerminates ==
    /\ \A t \in Callers : (pc[t] = "t_monitoring") ~> (pc[t] = "t_ret" /\ monitor_state = "Stopped")
    /\ [][/\ \A t \in Callers : (pc[t] = "t_join_worker" /\ pc'[t] = "t_clear") => ~monitor_thread
          /\ EnqueueStep => monitor_thread]_vars

\* a stop_realtime call that won the CAS has returned: events had been
\* enqueued, both threads are joined, the queue is cleared, the state is Stopped
C24_Witness ==
    \E t \in Callers :
        /\ pc[t] = "t_ret"
        /\ monitor_state = "Stopped"
        /\ ~monitoring
        /\ worker_pc = "w_none"
        /\ watcher_pc = "v_none"
        /\ evt_after # {}
        /\ path_queue = <<>>

\* C26: whenever monitor_state is Running, monitoring is true and the worker
\* and the watcher thread are both alive; a stop_realtime that arrives while
\* another thread's start_realtime is Starting cannot produce Running with
\* monitoring false.
C26_RunningIsMonitoring ==
    monitor_state = "Running" =>
        /\ monitoring
        /\ monitor_worker_thread /\ worker_pc \notin {"w_none", "w_done"}
        /\ monitor_thread /\ watcher_pc \notin {"v_none", "v_done"}

\* C27: whenever monitor_state is Stopped, callbacks_enabled is false and no
\* real-time callback is stored; a start_realtime that fails to spawn a
\* thread leaves no callback installed.
C27_StoppedHasNoCallback ==
    monitor_state = "Stopped" => (~callbacks_enabled /\ realtime_callback = NoCallback)

\* C28: on monitor stop the worker passes every path it finds left in
\* path_queue to scan_file_internal before it exits: process_queued_path
\* returns without scanning a leftover path only when the path is not an
\* existing regular file, never because the callback is gone.
C28_LeftoverScanned ==
    [][(worker_pc = "d_snap" /\ worker_pc' # "d_scan") => realtime_callback # NoCallback]_vars

\* C29: the queue is FIFO by first enqueue. path_queue changes only by the
\* append of a path that is not in it, by the worker taking its head, or by
\* the clear at stop; an event for a path already queued changes only that
\* path's last_event_time and leaves the sequence as it is.
C29_FifoByFirstEnqueue ==
    [][/\ \/ path_queue' = path_queue
          \/ \E p \in Paths : ~InQueue(path_queue, p) /\ path_queue' = Append(path_queue, p)
          \/ /\ path_queue # <<>>
             /\ path_queue' = Tail(path_queue)
             /\ worker_path' = Head(path_queue)
          \/ /\ path_queue' = <<>>
             /\ \E t \in Callers : pc[t] = "t_clear" /\ pc'[t] = "t_state"
       /\ EnqueueStep =>
             \E p \in Paths :
                 /\ p \in DOMAIN last_event_time'
                 /\ \A x \in DOMAIN last_event_time' \ {p} :
                        x \in DOMAIN last_event_time /\ last_event_time'[x] = last_event_time[x]
                 /\ InQueue(path_queue, p) => path_queue' = path_queue]_vars

\* pA and pB were enqueued in this order, then another event for pA arrived
\* while both were queued: pA has the later event time and is still in front
C29_Witness ==
    /\ path_queue = <<"pA", "pB">>
    /\ last_event_time["pA"] > last_event_time["pB"]

\* C30: while monitor_state stays Running, every path the watcher has
\* enqueued is eventually taken from the queue by the worker and handed to
\* process_queued_path, the threads being scheduled fairly and scans ending.
C30_EnqueuedIsDequeued ==
    \A p \in LivePaths :
        (monitor_state = "Running" /\ InQueue(path_queue, p))
            ~> (monitor_state # "Running" \/ worker_path = p)

\* ========================================================================
\* Properties of scan_mutex (checked under SpecMutex)
\* ========================================================================

\* the phase of scan_file_internal after the lock_guard: lookups and content scan
InProtectedPhase(t) == sm_pc[t] \in {"locked", "lookup", "yara"}

\* C31: no two threads are at the same time in the lookup or content-scan
\* phase of scan_file_internal; a thread in that phase holds scan_mutex.
C31_ScansSerialized ==
    /\ \A t \in ScanThreads : InProtectedPhase(t) => scan_mutex = t
    /\ \A t, u \in ScanThreads : (InProtectedPhase(t) /\ InProtectedPhase(u)) => t = u

\* one thread runs the content scan while the other has passed the gates and
\* waits for the lock
C31_Witness ==
    /\ sm_pc["s1"] = "yara"
    /\ scan_mutex = "s1"
    /\ sm_pc["s2"] = "gate"

\* C32: shutdown never releases the rule set, a prepared statement or the
\* database while a thread is inside the protected phase of a scan: the
\* statement a scan is stepping is not finalized and its connection is open,
\* and the rule set a scan is running has not been destroyed.
C32_NoUseAfterRelease ==
    \A t \in ScanThreads :
        /\ sm_use[t].kind \in StmtNames =>
               (<<sm_use[t].kind, sm_use[t].id>> \in live_stmts /\ sm_use[t].id \in open_conns)
        /\ sm_use[t].kind = "rules" => sm_use[t].id \in live_rules

\* ========================================================================
\* Properties of the quarantine records (checked under SpecQ)
\* ========================================================================

\* C33: every record inserted by quarantine has original_hash equal to the
\* SHA-256 of the content the original file had before obfuscation, not of
\* the XOR-transformed stored file (stated for the records whose digest
\* could be computed; the others carry the empty string).
C33_HashOfOriginal ==
    \A i \in 1..Len(quarantine_files) :
        LET r == quarantine_files[i] IN
        (r.stored_filename \in DOMAIN origin /\ r.original_hash # NoHash) =>
            r.original_hash = Sha256(origin[r.stored_filename].content)

\* C34: after any sequence of quarantine, restore and prune operations, failed
\* database statements and failed file removals included, every record that
\* is neither deleted nor restored has an existing file at
\* stored_path/stored_filename whose byte length equals the record's stored_size.
C34_RecordHasFile ==
    \A i \in 1..Len(quarantine_files) :
        LET r == quarantine_files[i] IN
        ~r.restored =>
            /\ r.stored_filename \in DOMAIN store_files
            /\ Len(store_files[r.stored_filename]) = r.stored_size

\* C35: whenever quarantine has returned QUARANTINED or PRUNED_AND_QUARANTINED,
\* the total byte size of the files in the quarantine folder is at most
\* folder_limit_bytes.
C35_FolderBounded ==
    (q_result.op = "quarantine"
       /\ q_result.status \in {"QUARANTINED", "PRUNED_AND_QUARANTINED"})
       => FolderBytes(store_files, Cardinality(StoredNames)) <= FolderLimit

\* a call of quarantine(F) on an existing file F returns
QuarantineCall ==
    /\ q_seq' # q_seq
    /\ q_result'.op = "quarantine"
    /\ q_result'.path \in DOMAIN fs_files

\* C36: whenever quarantine(F) returns a string beginning with ERROR:, the
\* original file F still exists at its path with unchanged content.
C36_ErrorKeepsOriginal ==
    [][(QuarantineCall /\ q_result'.status = "ERROR")
          => /\ q_result'.path \in DOMAIN fs_files'
             /\ fs_files'[q_result'.path] = fs_files[q_result'.path]]_vars

\* C37: quarantine returns EMERGENCY_DELETED only when the free space of the
\* volume is below safe_free_bytes; a failed free-space query does not by
\* itself delete the original file.
C37_EmergencyOnlyWhenLow ==
    [][(QuarantineCall /\ q_result'.status = "EMERGENCY_DELETED") => free_low]_vars

\* ========================================================================
\* Progress counters of an on-demand scan (checked under SpecScan)
\* ========================================================================

\* C38: with no concurrent scan, completed_count never exceeds total_count
\* during an on-demand scan, and when scan_file on an existing regular file has
\* done its work and is about to return, completed_count equals total_count,
\* whichever gate or scan result the file met.
C38_ProgressComplete ==
    initialized =>
        /\ completed_count <= total_count
        /\ (spc = "done" /\ ~in_folder /\ file.exists) => completed_count = total_count

\* ========================================================================
\* The aggregated rule detection (checked under SpecScan)
\* ========================================================================

\* the identifiers of a detection written out with ", " between them
RuleList(rules) ==
    CASE Len(rules) = 1 -> rules[1]
      [] Len(rules) = 2 -> rules[1] \o ", " \o rules[2]
      [] Len(rules) = 3 -> rules[1] \o ", " \o rules[2] \o ", " \o rules[3]
      [] OTHER -> ""

\* a delivered rule detection has severity Warning, lists the rules in match
\* order and carries the digests computed for the file
AggregatedFields(r) ==
    /\ r.severity = "Warning"
    /\ r.isMalware
    /\ r.matched_rules = rule_hits
    /\ r.matched_rules_count = Len(rule_hits)
    /\ file.md5 # NoDigest => r.md5 = file.md5
    /\ file.sha1 # NoDigest => r.sha1 = file.sha1
    /\ file.sha256 # NoDigest => r.sha256 = file.sha256

TwoEqualSamples ==
    \E k \in 1..(Len(stab.samples) - 1) :
        stab.samples[k] # UINT64_MAX /\ stab.samples[k] = stab.samples[k + 1]

\* C39: for a path that is a regular file throughout, process_queued_path
\* takes at most 5 size samples, declares the file stable exactly when two
\* consecutive samples are equal, and in every case then invokes the scan
\* orchestrator exactly once; if the path stops being a regular file at a
\* sample, the orchestrator is not invoked.
C39_StableThenScanOnce ==
    /\ Len(stab.samples) <= MAX_STABLE_RETRIES
    /\ stab.scans <= 1
    /\ stab.pc = "returned" =>
          /\ stab.always_regular => (stab.stable <=> TwoEqualSamples) /\ stab.scans = 1
          /\ ~stab.regular => stab.scans = 0

====
